---------------------------- MODULE Spec2Model ----------------------------
(***************************************************************************)
(* Closest-to-target airport selector of the tidface watchface             *)
(* (src/src/c/clock_closest_airport_noon.h): the DST test, the scan for    *)
(* the minimal-excess variants, the seeded random pick, and the            *)
(* re-evaluation scheduler of clock_closest_airport_noon_update.           *)
(*                                                                         *)
(* Conventions.  Instants are UTC epoch seconds.  The float                *)
(* s_selected_offset_hours always holds a multiple of 0.25 (a quarter      *)
(* count times 0.25f, exact in binary floating point), so it is kept as    *)
(* the integer number of quarter hours; (long)(offset_h * 3600.0f) is then *)
(* exactly quarters * 900.  C strings are sequences of character codes.    *)
(* C array indices are 0-based and kept 0-based in the state.              *)
(***************************************************************************)
EXTENDS Integers, Sequences, FiniteSets, TLC

\* ------------------------------------------------------------------ bounds
\* Longest timezone table (number of TzInfo records) that is explored.
MaxVariants == 2
\* Most rand() calls made by the rest of the program between two srand()s.
MaxDraws == 2
\* Most ticks of a run of the tick handler.
MaxTicks == 21600
\* Most createRaw_c calls of a run.
MaxRawCalls == 2
\* Most update_closest_noon_time calls of a run.
MaxWfCalls == 3
\* Most appmessages of a run.
MaxRequests == 2

\* --------------------------------------------------------------- constants
DAY_SECONDS == 86400
LONG_MAX == 2147483647
\* value of s_last_update_time / s_last_re_eval_time before the first call
UNSET == -1

\* "---", the placeholder written when nothing is selected
PLACEHOLDER == <<45, 45, 45>>

\* ------------------------------------------------------------ C arithmetic
\* C's % truncates toward zero: the remainder has the sign of the dividend.
CRem(a, b) == IF a >= 0 THEN a % b ELSE -((-a) % b)

\* gmtime() fields of a non-negative time_t
tm_hour(t) == (t % DAY_SECONDS) \div 3600
tm_min(t) == (t % 3600) \div 60
tm_sec(t) == t % 60

\* ------------------------------------------------------- the generated table
\* One bucket as generateCCode holds it before the pools are laid out: the
\* 4-tuple key (offsets already in quarter hours) and the bucket's codes.
\*   NYC : UTC-5, no DST in the table
\*   LON : UTC+1 / +2, DST window [2025-03-30 01:00Z, 2025-10-26 01:00Z)
\*   LOS, ABV : UTC+1, no DST
\*   ADL : UTC+9:30 / +10:30, wrap-around window (start in October, end in April)
\*   KTM : UTC+5:30 / +6:30, only the end instant set
Buckets ==
  << [std |-> -20, dst |-> -20, start |-> 0, end |-> 0,
      codes |-> << <<78, 89, 67>> >>],
     [std |-> 4, dst |-> 8, start |-> 1743296400, end |-> 1761440400,
      codes |-> << <<76, 79, 78>> >>],
     [std |-> 4, dst |-> 4, start |-> 0, end |-> 0,
      codes |-> << <<76, 79, 83>>, <<65, 66, 86>> >>],
     [std |-> 38, dst |-> 42, start |-> 1759595400, end |-> 1743870600,
      codes |-> << <<65, 68, 76>> >>],
     [std |-> 22, dst |-> 26, start |-> 0, end |-> 1761440400,
      codes |-> << <<75, 84, 77>> >> ] >>

\* the packing with 8- and 4-bit shifts
PackCode_nibbles(code) == (code[1] - 65) * 256 + (code[2] - 65) * 16 + (code[3] - 65)

\* pack each letter A-Z into 5 bits
PackCode(code) == (code[1] - 65) * 1024 + (code[2] - 65) * 32 + (code[3] - 65)

\* The display name of a place; here the lower-case code, NUL-terminated in
\* the flat pool.
PlaceName(code) == <<code[1] + 32, code[2] + 32, code[3] + 32>>

RECURSIVE CountBefore(_, _)
\* running offset: the number of codes of the buckets emitted before the k-th
CountBefore(order, k) ==
  IF k = 1 THEN 0
  ELSE CountBefore(order, k - 1) + Len(Buckets[order[k - 1]].codes)

\* airport_tz_list[] for the buckets emitted in `order`
TzList(order) ==
  [k \in 1..Len(order) |->
     [std_quarters |-> Buckets[order[k]].std,
      dst_quarters |-> Buckets[order[k]].dst,
      dst_start_utc |-> Buckets[order[k]].start,
      dst_end_utc |-> Buckets[order[k]].end,
      name_offset |-> CountBefore(order, k),
      name_count |-> Len(Buckets[order[k]].codes)]]

RECURSIVE CodePool(_, _)
\* the codes of the first k buckets of `order`, concatenated
CodePool(order, k) ==
  IF k = 0 THEN <<>>
  ELSE CodePool(order, k - 1) \o Buckets[order[k]].codes

\* airport_code_pool_bits[]
CodePoolBits(order) ==
  LET pool == CodePool(order, Len(order))
  IN [n \in 1..Len(pool) |-> PackCode(pool[n])]

RECURSIVE FlatNames(_)
\* airport_name_pool[]: every name followed by '\0'
FlatNames(pool) ==
  IF pool = <<>> THEN <<>>
  ELSE PlaceName(Head(pool)) \o <<0>> \o FlatNames(Tail(pool))

NamePool(order) == FlatNames(CodePool(order, Len(order)))

\* The emission orders explored: every sequence of distinct buckets of
\* length 1..MaxVariants (equal 4-tuples are one bucket).
Orders ==
  UNION {{o \in [1..n -> 1..Len(Buckets)] :
             \A i, j \in 1..n : i # j => o[i] # o[j]} : n \in 1..MaxVariants}

\* ------------------------------------------------------------------ inputs
\* current_utc_t values handed to the update operation.
\*   2025-01-15 11:00:00, 11:00:01, 11:07:00, 11:15:00, 11:30:00, 11:45:00,
\*   17:30:00; 2025-07-15 10:00:00, 10:07:00; one second before the LON DST
\*   start, the start itself, and the LON DST end.
Instants ==
  {1736938800, 1736938801, 1736939220, 1736939700, 1736940600, 1736941500,
   1736962200, 1752573600, 1752574020, 1743296399, 1743296400, 1761440400}

\* The instants at which the selector is run on its own: 2025-01-15 11:00:00,
\* 11:00:01 and 17:30:00, 2025-07-15 10:00:00, one second before the LON DST
\* start, and the LON DST end.
PickInstants ==
  {1736938800, 1736938801, 1736962200, 1752573600, 1743296399, 1761440400}

\* target_seconds_of_day values: midnight and noon
Targets == {0, 43200}

\* 2025-01-15 00:00:00 UTC, the day the alignments are computed on
AlignDay == 1736899200
\* UTC offsets run from UTC-12:00 to UTC+14:00, in quarter hours
MinOffsetQuarters == -48
MaxOffsetQuarters == 56
\* The standard offset alignments: whole hours (UTC+5), half hours
\* (UTC+5:30) and :45 offsets (UTC+5:45, UTC+12:45), i.e. local = UTC + k
\* hours + 0, 30 or 45 minutes.
StandardOffsets ==
  {q \in MinOffsetQuarters..MaxOffsetQuarters : q % 4 \in {0, 2, 3}}
\* generateCCode: the length of the HTML list, and the caps
\* (0: no cap)
MaxList == 3
GroupSizes == {0, 1}
MaxBuckets == {0, 1, 2}

\* clock_tid_get_string: calls made, buffer sizes and clock readings
MaxTidCalls == 3
TidBufferLens == {13, 14}
TidSeconds == {0, 1736938800, 1736938801}
TidMilliseconds == {0, 1, 999}

\* the whole-hour targets
WholeHourTargets == {h * 3600 : h \in 0..23}

\* ----------------------------------------------------------------- state
VARIABLES
  tz_list,                 \* airport_tz_list[]
  airport_code_pool_bits,  \* bit-packed code pool
  airport_name_pool,       \* flat NUL-separated name pool
  s_last_update_time,
  s_last_re_eval_time,
  s_selected_code,         \* the 3 characters before the terminating NUL
  s_selected_name,         \* the string s_selected_name points at
  s_selected_offset_hours, \* in quarter hours (see the conventions above)
  code_layer_text,         \* text shown by code_layer
  time_layer_text,         \* <<minutes, seconds>> shown by time_layer
  rand_next,               \* state of the C library generator
  rand_draws,              \* rand() calls since the last srand()
  best_candidates,         \* _airport_pick_new: best_candidates[0 .. best_count)
  idx,                     \* _airport_pick_new: chosen index, -1 if none
  eval_target,             \* target_seconds_of_day of the last evaluation
  last_call,               \* what the last update call did
  memo,                    \* one remembered evaluation (observation only)
  fault,                   \* "none", or how the evaluation left defined behaviour
  align,                   \* the last alignment computed (run.sh, Re-evaluation Intervals)
  last_timestamp,          \* clock_tid.c: microseconds, as [sec, usec]
  tid_timestamp,           \* clock_tid.c: the timestamp last given to createRaw_c
  tid_call,                \* the last clock_tid_get_string call and their number
  gen,                     \* generateCCode: the arguments and the C file written
  tzc,                     \* findDstTransitions / calculateTransitions in progress
  noon,                    \* clock_closest_noon.c: the statics and the last scan
  tick,                    \* the tick handler: the next second and the target
  raw,                     \* createRaw_c: the last two timestamps and TIDs
  wf,                      \* watchface.c: update_closest_noon_time statics and last call
  js                       \* pkjs/index.js: airportData, airportIndex, the messages and calls

vars ==
  <<tz_list, airport_code_pool_bits, airport_name_pool, s_last_update_time,
    s_last_re_eval_time, s_selected_code, s_selected_name,
    s_selected_offset_hours, code_layer_text, time_layer_text, rand_next,
    rand_draws, best_candidates, idx, eval_target, last_call, memo, fault, align,
    last_timestamp, tid_timestamp, tid_call, gen, tzc, noon, tick,
    raw, wf, js>>

\* the state of the selector, its table included
selector ==
  <<tz_list, airport_code_pool_bits, airport_name_pool, s_last_update_time,
    s_last_re_eval_time, s_selected_code, s_selected_name,
    s_selected_offset_hours, code_layer_text, time_layer_text, rand_next,
    rand_draws, best_candidates, idx, eval_target, last_call, memo, fault>>

\* what the selector's own operations never touch
aux == <<align, last_timestamp, tid_timestamp, tid_call, gen, tzc,
    noon, tick, raw, wf, js>>

\* the state of the older watchface parts and of the companion script
rest == <<noon, tick, raw, wf, js>>

\* the TID clock's state
tid == <<last_timestamp, tid_timestamp, tid_call>>

table == <<tz_list, airport_code_pool_bits, airport_name_pool>>

TZ_LIST_COUNT == Len(tz_list)
\* TZ_LIST[i] for a 0-based i
TZ_LIST(i) == tz_list[i + 1]


\* ------------------------------------------------------- C library rand()
\* srand() left out: the generator carries on from where it was
srand_missing(seed) == rand_next

\* srand(seed): the generator restarts from the seed
srand(seed) == seed

\* one step of the generator (a 16-bit linear congruential generator; the C
\* library's own constants are not part of this repository)
rand_step(next) == ((next % 65536) * 25173 + 13849) % 65536

\* the value rand() returns after the step
rand_value(next) == next \div 256

\* --------------------------------------------------------- the selector
\* the DST test with the end instant counted as inside the window
_airport_is_dst_inclusive_end(tz, now_utc) ==
  IF tz.dst_start_utc = 0 /\ tz.dst_end_utc = 0 THEN FALSE
  ELSE IF tz.dst_start_utc <= tz.dst_end_utc
       THEN now_utc >= tz.dst_start_utc /\ now_utc <= tz.dst_end_utc
       ELSE now_utc >= tz.dst_start_utc \/ now_utc <= tz.dst_end_utc

\* Helper: determine if DST is active for a TzInfo at current UTC
_airport_is_dst(tz, now_utc) ==
  IF tz.dst_start_utc = 0 /\ tz.dst_end_utc = 0 THEN FALSE
  ELSE IF tz.dst_start_utc <= tz.dst_end_utc
       THEN now_utc >= tz.dst_start_utc /\ now_utc < tz.dst_end_utc
       ELSE now_utc >= tz.dst_start_utc \/ now_utc < tz.dst_end_utc

\* (is_dst ? tz->dst_quarters : tz->std_quarters), the offset in quarter hours
ActiveQuarters(tz, now_utc) ==
  IF _airport_is_dst(tz, now_utc) THEN tz.dst_quarters ELSE tz.std_quarters

\* (long)(offset_h * 3600.0f) for offset_h = quarters * 0.25f
OffsetSeconds(quarters) == quarters * 900

\* local_secs of one bucket: utc_secs plus the offset, reduced into [0, DAY)
LocalSecs(tz, current_utc_t) ==
  LET utc_secs == current_utc_t % DAY_SECONDS
      local_secs ==
        CRem(utc_secs + OffsetSeconds(ActiveQuarters(tz, current_utc_t)),
             DAY_SECONDS)
  IN IF local_secs < 0 THEN local_secs + DAY_SECONDS ELSE local_secs

\* the scan step that keeps the first qualifying bucket and never replaces it
ScanStep_first(acc, i, current_utc_t, target_seconds_of_day) ==
  LET local_secs == LocalSecs(TZ_LIST(i), current_utc_t)
      delta == local_secs - target_seconds_of_day
  IN IF local_secs < target_seconds_of_day THEN acc
     ELSE IF Len(acc.best_candidates) = 0
          THEN [best_delta |-> delta, best_candidates |-> <<i>>]
          ELSE acc

\* the scan step without the "hasn't reached target time yet" filter
ScanStep_nofilter(acc, i, current_utc_t, target_seconds_of_day) ==
  LET local_secs == LocalSecs(TZ_LIST(i), current_utc_t)
      delta == local_secs - target_seconds_of_day
      best_count == Len(acc.best_candidates)
  IN IF delta < acc.best_delta
     THEN [best_delta |-> delta, best_candidates |-> <<i>>]
     ELSE IF delta = acc.best_delta /\ best_count < TZ_LIST_COUNT
          THEN [acc EXCEPT !.best_candidates = Append(@, i)]
          ELSE acc

\* the scan step that also skips a bucket exactly at the target
ScanStep_exclusive(acc, i, current_utc_t, target_seconds_of_day) ==
  LET local_secs == LocalSecs(TZ_LIST(i), current_utc_t)
      delta == local_secs - target_seconds_of_day
      best_count == Len(acc.best_candidates)
  IN IF local_secs <= target_seconds_of_day THEN acc
     ELSE IF delta < acc.best_delta
          THEN [best_delta |-> delta, best_candidates |-> <<i>>]
          ELSE IF delta = acc.best_delta /\ best_count < TZ_LIST_COUNT
               THEN [acc EXCEPT !.best_candidates = Append(@, i)]
               ELSE acc

\* the scan step that keeps only the first bucket of each new minimum
ScanStep_noties(acc, i, current_utc_t, target_seconds_of_day) ==
  LET local_secs == LocalSecs(TZ_LIST(i), current_utc_t)
      delta == local_secs - target_seconds_of_day
  IN IF local_secs < target_seconds_of_day THEN acc
     ELSE IF delta < acc.best_delta
          THEN [best_delta |-> delta, best_candidates |-> <<i>>]
          ELSE acc

\* One iteration of the scan loop for bucket i; acc holds best_delta and
\* best_candidates[0 .. best_count).
ScanStep(acc, i, current_utc_t, target_seconds_of_day) ==
  LET local_secs == LocalSecs(TZ_LIST(i), current_utc_t)
      delta == local_secs - target_seconds_of_day
      best_count == Len(acc.best_candidates)
  IN IF local_secs < target_seconds_of_day THEN acc
     ELSE IF delta < acc.best_delta
          THEN [best_delta |-> delta, best_candidates |-> <<i>>]
          ELSE IF delta = acc.best_delta /\ best_count < TZ_LIST_COUNT
               THEN [acc EXCEPT !.best_candidates = Append(@, i)]
               ELSE acc

RECURSIVE Scan(_, _, _)
\* the scan loop after the iterations i = 0 .. n-1
Scan(n, current_utc_t, target_seconds_of_day) ==
  IF n = 0 THEN [best_delta |-> LONG_MAX, best_candidates |-> <<>>]
  ELSE ScanStep(Scan(n - 1, current_utc_t, target_seconds_of_day), n - 1,
                current_utc_t, target_seconds_of_day)

\* unpack 3-letter code from a bit-packed 15-bit entry
UnpackCode(bits) ==
  <<65 + ((bits \div 1024) % 32), 65 + ((bits \div 32) % 32), 65 + (bits % 32)>>

RECURSIVE _airport_flat_name(_, _, _)
\* Helper to fetch the Nth null-terminated name from the flat pool: the
\* 0-based position p reached after skipping nameIndex strings.
_airport_flat_name(pool, p, nameIndex) ==
  IF nameIndex <= 0 THEN p
  ELSE LET nul == CHOOSE k \in p..(Len(pool) - 1) :
                    pool[k + 1] = 0 /\ \A j \in p..(k - 1) : pool[j + 1] # 0
       IN _airport_flat_name(pool, nul + 1, nameIndex - 1)

\* the C string that starts at 0-based position p of the pool
CString(pool, p) ==
  LET nul == CHOOSE k \in p..(Len(pool) - 1) :
               pool[k + 1] = 0 /\ \A j \in p..(k - 1) : pool[j + 1] # 0
  IN [n \in 1..(nul - p) |-> pool[p + n]]

\* Step 2 reading the name of the bucket's first place whatever ni is
PickPlace_firstname(found, current_utc_t) ==
  LET best_count == Len(found.best_candidates)
      r1 == IF best_count = 1 THEN srand(current_utc_t)
            ELSE rand_step(srand(current_utc_t))
      pick == IF best_count = 1 THEN 0 ELSE rand_value(r1) % best_count
      i == found.best_candidates[pick + 1]
      tz == TZ_LIST(i)
      cnt == tz.name_count
      r2 == IF cnt = 1 THEN r1 ELSE rand_step(r1)
      ni == IF cnt = 1 THEN 0 ELSE rand_value(r2) % cnt
  IN [idx |-> i,
      offset |-> ActiveQuarters(tz, current_utc_t),
      code |-> UnpackCode(airport_code_pool_bits[tz.name_offset + ni + 1]),
      name |-> CString(airport_name_pool,
                       _airport_flat_name(airport_name_pool, 0,
                                          tz.name_offset)),
      next |-> r2]

\* Step 2 of _airport_pick_new: the random candidate and the random place,
\* from the generator state left by srand().
PickPlace(found, current_utc_t) ==
  LET best_count == Len(found.best_candidates)
      r1 == IF best_count = 1 THEN srand(current_utc_t)
            ELSE rand_step(srand(current_utc_t))
      pick == IF best_count = 1 THEN 0 ELSE rand_value(r1) % best_count
      i == found.best_candidates[pick + 1]
      tz == TZ_LIST(i)
      cnt == tz.name_count
      r2 == IF cnt = 1 THEN r1 ELSE rand_step(r1)
      ni == IF cnt = 1 THEN 0 ELSE rand_value(r2) % cnt
  IN [idx |-> i,
      offset |-> ActiveQuarters(tz, current_utc_t),
      code |-> UnpackCode(airport_code_pool_bits[tz.name_offset + ni + 1]),
      name |-> CString(airport_name_pool,
                       _airport_flat_name(airport_name_pool, 0,
                                          tz.name_offset + ni)),
      next |-> r2]

\* the best_count == 0 branch leaving the previous selection in place
NoneFound_keeps(current_utc_t) ==
  /\ UNCHANGED <<s_selected_code, s_selected_name, s_selected_offset_hours>>
  /\ idx' = -1
  /\ rand_next' = srand(current_utc_t)

\* The best_count == 0 branch: the placeholder and a zero offset.
NoneFound(current_utc_t) ==
  /\ s_selected_code' = PLACEHOLDER
  /\ s_selected_name' = PLACEHOLDER
  /\ s_selected_offset_hours' = 0
  /\ idx' = -1
  /\ rand_next' = srand(current_utc_t)

\* Step 2, first half: the index of the random candidate.
PickCandidate(found, current_utc_t) ==
  LET best_count == Len(found.best_candidates)
  IN found.best_candidates[
       (IF best_count = 1 THEN 0
        ELSE rand_value(rand_step(srand(current_utc_t))) % best_count) + 1]

\* what rand() % cnt can leave in ni when cnt is 0 and the division does not
\* trap: the quotient is undefined, and with it the remainder
UndefinedRemainders == {0, 1, 32767}
\* what a read past the end of airport_code_pool_bits can find
UndefinedBits == {0, 32767}

\* Step 2 for a chosen bucket with name_count == 0: rand() % cnt divides by
\* zero.  The division traps and the evaluation ends there, or it leaves an
\* undefined ni, and entry name_offset + ni is read: another bucket's place
\* when that entry is inside the pools, whatever lies behind them otherwise.
PickEmpty(found, current_utc_t) ==
  LET best_count == Len(found.best_candidates)
      r1 == IF best_count = 1 THEN srand(current_utc_t)
            ELSE rand_step(srand(current_utc_t))
      pick == IF best_count = 1 THEN 0 ELSE rand_value(r1) % best_count
      i == found.best_candidates[pick + 1]
      tz == TZ_LIST(i)
  IN /\ idx' = i
     /\ s_selected_offset_hours' = ActiveQuarters(tz, current_utc_t)
     /\ rand_next' = rand_step(r1)
     /\ \/ /\ fault' = "division by zero"
           /\ UNCHANGED <<s_selected_code, s_selected_name,
                          s_last_re_eval_time>>
        \/ \E ni \in UndefinedRemainders :
             IF tz.name_offset + ni < Len(airport_code_pool_bits)
             THEN /\ fault' = fault
                  /\ s_selected_code' =
                       UnpackCode(airport_code_pool_bits[tz.name_offset + ni + 1])
                  /\ s_selected_name' =
                       CString(airport_name_pool,
                               _airport_flat_name(airport_name_pool, 0,
                                                  tz.name_offset + ni))
                  /\ s_last_re_eval_time' = current_utc_t
             ELSE /\ fault' = "read outside the pools"
                  /\ \E bits \in UndefinedBits :
                       /\ s_selected_code' = UnpackCode(bits)
                       /\ s_selected_name' = PlaceName(UnpackCode(bits))
                  /\ s_last_re_eval_time' = current_utc_t

\* _airport_pick_new(current_utc_t, target_seconds_of_day)
_airport_pick_new(current_utc_t, target_seconds_of_day) ==
  LET found == Scan(TZ_LIST_COUNT, current_utc_t, target_seconds_of_day)
  IN /\ best_candidates' = found.best_candidates
     /\ eval_target' = target_seconds_of_day
     /\ rand_draws' = 0
     /\ IF Len(found.best_candidates) = 0
        THEN /\ NoneFound(current_utc_t)
             /\ s_last_re_eval_time' = current_utc_t
             /\ fault' = fault
        ELSE IF TZ_LIST(PickCandidate(found, current_utc_t)).name_count = 0
        THEN PickEmpty(found, current_utc_t)
        ELSE LET won == PickPlace(found, current_utc_t)
             IN /\ s_selected_code' = won.code
                /\ s_selected_name' = won.name
                /\ s_selected_offset_hours' = won.offset
                /\ idx' = won.idx
                /\ rand_next' = won.next
                /\ s_last_re_eval_time' = current_utc_t
                /\ fault' = fault

\* ------------------------------------------------------------ the scheduler
\* the schedule with :45 not excluded
needs_eval_with45(current_utc_t, last_re_eval_time) ==
  IF tm_min(current_utc_t) % 15 = 0 /\ tm_sec(current_utc_t) = 0
  THEN current_utc_t # last_re_eval_time
  ELSE last_re_eval_time = UNSET

\* the schedule without the first-time-after-boot branch
needs_eval_noboot(current_utc_t, last_re_eval_time) ==
  IF tm_min(current_utc_t) % 15 = 0 /\ tm_min(current_utc_t) # 45
     /\ tm_sec(current_utc_t) = 0
  THEN current_utc_t # last_re_eval_time
  ELSE FALSE

\* the schedule on the hour and the half hour only
needs_eval_halfhours(current_utc_t, last_re_eval_time) ==
  IF tm_min(current_utc_t) % 30 = 0 /\ tm_sec(current_utc_t) = 0
  THEN current_utc_t # last_re_eval_time
  ELSE last_re_eval_time = UNSET

\* the schedule that evaluates only at an instant later than the last
\* evaluation
needs_eval_forward(current_utc_t, last_re_eval_time) ==
  IF tm_min(current_utc_t) % 15 = 0 /\ tm_min(current_utc_t) # 45
     /\ tm_sec(current_utc_t) = 0
  THEN current_utc_t > last_re_eval_time
  ELSE last_re_eval_time = UNSET

\* the schedule that re-evaluates on the hour only
needs_eval_hourly(current_utc_t, last_re_eval_time) ==
  IF tm_min(current_utc_t) = 0 /\ tm_sec(current_utc_t) = 0
  THEN current_utc_t # last_re_eval_time
  ELSE last_re_eval_time = UNSET

\* Re-evaluate every 15-minutes on UTC :00, :15, :30 (excluding :45), and the
\* first time after boot.
needs_eval(current_utc_t, last_re_eval_time) ==
  IF tm_min(current_utc_t) % 15 = 0 /\ tm_min(current_utc_t) # 45
     /\ tm_sec(current_utc_t) = 0
  THEN current_utc_t # last_re_eval_time
  ELSE last_re_eval_time = UNSET

\* the time layer showing the UTC minutes and seconds, the offset left out
HeroTime_utc(current_utc_t, offset_quarters) ==
  <<tm_min(current_utc_t), tm_sec(current_utc_t)>>

\* The minutes and seconds written to the time layer.
HeroTime(current_utc_t, offset_quarters) ==
  LET offset_seconds == OffsetSeconds(offset_quarters)
      t == CRem(tm_hour(current_utc_t) * 3600 + tm_min(current_utc_t) * 60
                  + tm_sec(current_utc_t) + offset_seconds, DAY_SECONDS)
      total_local_secs == IF t < 0 THEN t + DAY_SECONDS ELSE t
  IN <<(total_local_secs \div 60) % 60, total_local_secs % 60>>

\* the update without the same-second check, evaluating at every aligned call
update_noskip(current_utc_t, target_seconds_of_day) ==
  /\ s_last_update_time' = current_utc_t
  /\ IF \/ /\ tm_min(current_utc_t) % 15 = 0
           /\ tm_min(current_utc_t) # 45
           /\ tm_sec(current_utc_t) = 0
        \/ s_last_re_eval_time = UNSET
     THEN /\ _airport_pick_new(current_utc_t, target_seconds_of_day)
          /\ last_call' = [outcome |-> "evaluated",
                           first |-> s_last_update_time = UNSET,
                           before |-> s_selected_code]
     ELSE /\ last_call' = [outcome |-> "rendered",
                           first |-> s_last_update_time = UNSET,
                           before |-> s_selected_code]
          /\ UNCHANGED <<s_last_re_eval_time, s_selected_code,
                         s_selected_name, s_selected_offset_hours,
                         rand_next, rand_draws, best_candidates, idx,
                         eval_target, fault>>
  /\ code_layer_text' = s_selected_code'
  /\ time_layer_text' = HeroTime(current_utc_t, s_selected_offset_hours')
  /\ UNCHANGED <<table, memo>>

\* clock_closest_airport_noon_update with the two layers init returned.  (A
\* call with a NULL layer returns before it reads or writes anything: a
\* stuttering step.)
clock_closest_airport_noon_update(current_utc_t, target_seconds_of_day) ==
  IF current_utc_t = s_last_update_time
  THEN \* Skip redundant updates in the same second
       /\ last_call' = [outcome |-> "skipped", first |-> FALSE,
                       before |-> s_selected_code]
       /\ UNCHANGED <<table, s_last_update_time, s_last_re_eval_time,
                      s_selected_code, s_selected_name,
                      s_selected_offset_hours, code_layer_text,
                      time_layer_text, rand_next, rand_draws,
                      best_candidates, idx, eval_target, memo, fault>>
  ELSE /\ s_last_update_time' = current_utc_t
       /\ IF needs_eval(current_utc_t, s_last_re_eval_time)
          THEN /\ _airport_pick_new(current_utc_t, target_seconds_of_day)
               /\ last_call' = [outcome |-> "evaluated",
                                first |-> s_last_update_time = UNSET,
                                before |-> s_selected_code]
          ELSE /\ last_call' = [outcome |-> "rendered",
                                first |-> s_last_update_time = UNSET,
                                before |-> s_selected_code]
               /\ UNCHANGED <<s_last_re_eval_time, s_selected_code,
                              s_selected_name, s_selected_offset_hours,
                              rand_next, rand_draws, best_candidates, idx,
                              eval_target, fault>>
       /\ code_layer_text' = s_selected_code'
       /\ time_layer_text' = HeroTime(current_utc_t, s_selected_offset_hours')
       /\ UNCHANGED <<table, memo>>

\* ---------------------------------------------- generateAirportTzList.ts
\* generateCCode(airportsList, outPath, groupSize, maxBucket), over the
\* airport database AirportData.  A Map is a sequence in insertion order.

\* memoizedFindDstTransitions(tz, year) for the year of the run:
\* [standard offset, DST offset, DST start, DST end]
ZoneDetails(tz) ==
  CASE tz = "America/New_York" -> <<-18000, -14400, 1741503600, 1762063200>>
    [] tz = "Europe/London" -> <<0, 3600, 1743296400, 1761440400>>
    [] tz = "Europe/Dublin" -> <<0, 3600, 1743296400, 1761440400>>
    [] tz = "Atlantic/Reykjavik" -> <<0, 0, 0, 0>>
    [] tz = "Africa/Lagos" -> <<3600, 3600, 0, 0>>
    [] tz = "Europe/Paris" -> <<3600, 7200, 1743296400, 1761440400>>
    [] tz = "Asia/Kolkata" -> <<19800, 19800, 0, 0>>
    [] tz = "Asia/Kathmandu" -> <<20700, 20700, 0, 0>>

\* one airport of the database
Airport(iata, tz, route_hits, type, scheduled_service) ==
  [iata |-> iata, correctedTz |-> tz, route_hits |-> route_hits,
   type |-> type, scheduled_service |-> scheduled_service]

\* the IATA codes of the airports, and XXX, a code that is in no database
Iata ==
  [LHR |-> <<76, 72, 82>>,
   JFK |-> <<74, 70, 75>>,
   DUB |-> <<68, 85, 66>>,
   KEF |-> <<75, 69, 70>>,
   LOS |-> <<76, 79, 83>>,
   CDG |-> <<67, 68, 71>>,
   DEL |-> <<68, 69, 76>>,
   KTM |-> <<75, 84, 77>>,
   LGW |-> <<76, 71, 87>>,
   XXX |-> <<88, 88, 88>>]

\* the codes the HTML list is made of
ListCodes == {Iata.LHR, Iata.DUB, Iata.LGW, Iata.CDG, Iata.XXX}

\* airportDb, in the order of the airport data
AirportData ==
  <<Airport(Iata.LHR, "Europe/London", 95, "large_airport", "yes"),
    Airport(Iata.JFK, "America/New_York", 90, "large_airport", "yes"),
    Airport(Iata.DUB, "Europe/Dublin", 40, "large_airport", "yes"),
    Airport(Iata.KEF, "Atlantic/Reykjavik", 20, "medium_airport", "yes"),
    Airport(Iata.LOS, "Africa/Lagos", 30, "small_airport", "no"),
    Airport(Iata.CDG, "Europe/Paris", 85, "large_airport", "yes"),
    Airport(Iata.DEL, "Asia/Kolkata", 70, "large_airport", "yes"),
    Airport(Iata.KTM, "Asia/Kathmandu", 10, "medium_airport", "yes"),
    Airport(Iata.LGW, "Europe/London", 45, "large_airport", "yes")>>

\* airportDb.get(iata): the index of the airport, 0 if there is none
AirportIndex(db, iata) ==
  LET S == {k \in 1..Len(db) : db[k].iata = iata}
  IN IF S = {} THEN 0 ELSE CHOOSE k \in S : TRUE

\* array.includes(x)
Includes(seq, x) == \E k \in 1..Len(seq) : seq[k] = x

\* array.slice(0, n)
Slice(seq, n) == SubSeq(seq, 1, IF n < Len(seq) THEN n ELSE Len(seq))

\* array.map(a => a.iata)
RECURSIVE Iatas(_)
Iatas(seq) ==
  IF seq = <<>> THEN <<>> ELSE <<Head(seq).iata>> \o Iatas(Tail(seq))

RECURSIVE SortByRouteHits(_)
\* array.sort((a, b) => b.route_hits - a.route_hits): descending, stable
SortByRouteHits(seq) ==
  IF seq = <<>> THEN <<>>
  ELSE LET a == seq[Len(seq)]
           sorted == SortByRouteHits(SubSeq(seq, 1, Len(seq) - 1))
           k == Cardinality({i \in 1..Len(sorted) :
                               sorted[i].route_hits >= a.route_hits})
       IN SubSeq(sorted, 1, k) \o <<a>> \o SubSeq(sorted, k + 1, Len(sorted))

\* `${details[0]}_${details[1]}_${details[2]}_${details[3]}`
getBucketKey(details) == <<details[1], details[2], details[3], details[4]>>

\* tzBuckets.get(key): the index of the bucket, 0 if there is none
BucketIndex(buckets, key) ==
  LET S == {k \in 1..Len(buckets) : buckets[k].key = key}
  IN IF S = {} THEN 0 ELSE CHOOSE k \in S : \A j \in S : k <= j

\* a new bucket for every airport, equal 4-tuples not merged
BucketsStep_nomerge(buckets, airport) ==
  LET details == ZoneDetails(airport.correctedTz)
  IN Append(buckets,
            [key |-> getBucketKey(details), std |-> details[1],
             dst |-> details[2], start |-> details[3], end |-> details[4],
             tzNames |-> {airport.correctedTz}, codes |-> <<>>])

\* Bucket creation/update logic for one airport.
BucketsStep(buckets, airport) ==
  LET details == ZoneDetails(airport.correctedTz)
      key == getBucketKey(details)
      k == BucketIndex(buckets, key)
  IN IF k = 0
     THEN Append(buckets,
                 [key |-> key, std |-> details[1], dst |-> details[2],
                  start |-> details[3], end |-> details[4],
                  tzNames |-> {airport.correctedTz}, codes |-> <<>>])
     ELSE [buckets EXCEPT ![k].tzNames = @ \cup {airport.correctedTz}]

RECURSIVE InitialBuckets(_, _)
\* tzBuckets after the first n airports
InitialBuckets(db, n) ==
  IF n = 0 THEN <<>> ELSE BucketsStep(InitialBuckets(db, n - 1), db[n])

RECURSIVE GroupKeys(_, _)
\* groupKeys.keys(): the standard offsets of the first n buckets, each once
GroupKeys(buckets, n) ==
  IF n = 0 THEN <<>>
  ELSE LET keys == GroupKeys(buckets, n - 1)
       IN IF Includes(keys, buckets[n].std) THEN keys
          ELSE Append(keys, buckets[n].std)

\* airportsByStdOffset.get(stdOffsetSeconds)
AirportsByStdOffset(db, stdOffsetSeconds) ==
  SelectSeq(db, LAMBDA a : ZoneDetails(a.correctedTz)[1] = stdOffsetSeconds)

\* getFallbackCodes(stdOffsetSeconds)
getFallbackCodes(db, stdOffsetSeconds, maxBucket) ==
  LET candidates == SortByRouteHits(AirportsByStdOffset(db, stdOffsetSeconds))
      scheduledYes(a) == a.scheduled_service = "yes"
      large == SelectSeq(candidates,
                 LAMBDA a : a.type = "large_airport" /\ scheduledYes(a))
      tier1 == Iatas(Slice(large, IF maxBucket > 0 THEN maxBucket ELSE 10))
      remain2 == (IF maxBucket > 0 THEN maxBucket ELSE 5) - Len(tier1)
      medium == SelectSeq(candidates,
                  LAMBDA a : /\ a.type = "medium_airport" /\ scheduledYes(a)
                             /\ ~Includes(tier1, a.iata))
      tier2 == IF remain2 > 0
               THEN tier1 \o Iatas(Slice(medium,
                                         IF remain2 < 5 THEN remain2 ELSE 5))
               ELSE tier1
      remain3 == (IF maxBucket > 0 THEN maxBucket ELSE 3) - Len(tier2)
      small == SelectSeq(candidates,
                 LAMBDA a : /\ a.type = "small_airport" /\ scheduledYes(a)
                            /\ ~Includes(tier2, a.iata))
      tier3 == IF remain3 > 0 THEN tier2 \o Iatas(Slice(small, 3)) ELSE tier2
      result == IF Len(tier3) = 0 THEN <<candidates[1].iata>> ELSE tier3
  IN IF Len(candidates) = 0 THEN <<>>
     ELSE IF maxBucket > 0 THEN Slice(result, maxBucket) ELSE result

\* groupCodes.get(stdOffset): the index of the group, 0 if there is none
GroupIndex(groups, stdOffset) ==
  LET S == {k \in 1..Len(groups) : groups[k].std = stdOffset}
  IN IF S = {} THEN 0 ELSE CHOOSE k \in S : TRUE

\* One code of the HTML list: [groups, seenHtmlIatas] after it.
ListStep(g, db, iata) ==
  LET a == AirportIndex(db, iata)
      stdOffset == ZoneDetails(db[a].correctedTz)[1]
      k == GroupIndex(g.groups, stdOffset)
  IN IF a = 0 \/ iata \in g.seenHtmlIatas THEN g
     ELSE [groups |-> IF k = 0
                      THEN Append(g.groups,
                                  [std |-> stdOffset, codes |-> <<iata>>])
                      ELSE [g.groups EXCEPT ![k].codes = Append(@, iata)],
           seenHtmlIatas |-> g.seenHtmlIatas \cup {iata}]

RECURSIVE HtmlGroups(_, _, _)
\* groupCodes after the first n codes of airportsList
HtmlGroups(db, airportsList, n) ==
  IF n = 0 THEN [groups |-> <<>>, seenHtmlIatas |-> {}]
  ELSE ListStep(HtmlGroups(db, airportsList, n - 1), db, airportsList[n])

\* Trim HTML groups to groupSize
TrimGroups(groups, groupSize) ==
  IF groupSize > 0
  THEN [k \in 1..Len(groups) |->
          [groups[k] EXCEPT !.codes = Slice(@, groupSize)]]
  ELSE groups

RECURSIVE ApplyFallbacks(_, _, _, _, _)
\* Apply fallbacks for standard offsets that exist in buckets but have no
\* HTML codes: groupCodes after the first n keys of groupKeys.
ApplyFallbacks(groups, db, keys, n, maxBucket) ==
  IF n = 0 THEN groups
  ELSE LET before == ApplyFallbacks(groups, db, keys, n - 1, maxBucket)
           k == GroupIndex(before, keys[n])
           fallbacks == getFallbackCodes(db, keys[n], maxBucket)
       IN IF (k = 0 \/ Len(before[k].codes) = 0) /\ Len(fallbacks) > 0
          THEN IF k = 0
               THEN Append(before, [std |-> keys[n], codes |-> fallbacks])
               ELSE [before EXCEPT ![k].codes = fallbacks]
          ELSE before

RECURSIVE GroupedCodes(_)
\* the codes of all groups, in the order the assignment visits them
GroupedCodes(groups) ==
  IF groups = <<>> THEN <<>>
  ELSE Head(groups).codes \o GroupedCodes(Tail(groups))

\* assignToBucket(iataCode): [buckets, usedCodes] after the call
assignToBucket(st, db, iataCode, maxBucket) ==
  LET a == AirportIndex(db, iataCode)
      key == getBucketKey(ZoneDetails(db[a].correctedTz))
      k == BucketIndex(st.buckets, key)
  IN IF iataCode \in st.usedCodes \/ a = 0 \/ k = 0 THEN st
     ELSE IF maxBucket <= 0 \/ Len(st.buckets[k].codes) < maxBucket
     THEN [buckets |-> [st.buckets EXCEPT ![k].codes = Append(@, iataCode)],
           usedCodes |-> st.usedCodes \cup {iataCode}]
     ELSE st

RECURSIVE AssignGroups(_, _, _, _, _)
\* Assign codes from the HTML/fallback groups: the first n of them.
AssignGroups(buckets, db, codes, n, maxBucket) ==
  IF n = 0 THEN [buckets |-> buckets, usedCodes |-> {}]
  ELSE assignToBucket(AssignGroups(buckets, db, codes, n - 1, maxBucket),
                      db, codes[n], maxBucket)

\* the safety pass left out
SafetyStep_none(st, db, k, maxBucket) == st

\* Final safety pass for empty buckets: bucket k.
SafetyStep(st, db, k, maxBucket) ==
  LET bucket == st.buckets[k]
      candidates ==
        SortByRouteHits(SelectSeq(db,
          LAMBDA a : /\ a.correctedTz \in bucket.tzNames
                     /\ a.iata \notin st.usedCodes))
  IN IF Len(bucket.codes) = 0 /\ Len(candidates) > 0
     THEN assignToBucket(st, db, candidates[1].iata, maxBucket)
     ELSE st

RECURSIVE SafetyPass(_, _, _, _)
\* the safety pass over the first n buckets
SafetyPass(st, db, n, maxBucket) ==
  IF n = 0 THEN st
  ELSE SafetyStep(SafetyPass(st, db, n - 1, maxBucket), db, n, maxBucket)

\* Apply maxBucket limit definitively after all assignments
CapBuckets(buckets, maxBucket) ==
  IF maxBucket > 0
  THEN [k \in 1..Len(buckets) |->
          IF Len(buckets[k].codes) > maxBucket
          THEN [buckets[k] EXCEPT !.codes = Slice(@, maxBucket)]
          ELSE buckets[k]]
  ELSE buckets

\* the comparison function of the sort: a before b
BucketBefore(a, b) ==
  IF a.std # b.std THEN a.std < b.std
  ELSE IF a.dst # b.dst THEN a.dst < b.dst
  ELSE a.start < b.start

RECURSIVE SortBuckets(_)
\* Array.from(tzBuckets.values()).sort(...): ascending, stable
SortBuckets(buckets) ==
  IF buckets = <<>> THEN <<>>
  ELSE LET b == buckets[Len(buckets)]
           sorted == SortBuckets(SubSeq(buckets, 1, Len(buckets) - 1))
           k == Cardinality({i \in 1..Len(sorted) : ~BucketBefore(b, sorted[i])})
       IN SubSeq(sorted, 1, k) \o <<b>> \o SubSeq(sorted, k + 1, Len(sorted))

\* the buckets with no cap applied, neither on assignment nor afterwards
FinalBuckets_nocap(db, airportsList, groupSize, maxBucket) ==
  LET buckets == InitialBuckets(db, Len(db))
      html == TrimGroups(HtmlGroups(db, airportsList, Len(airportsList)).groups,
                         groupSize)
      keys == GroupKeys(buckets, Len(buckets))
      codes == GroupedCodes(ApplyFallbacks(html, db, keys, Len(keys), maxBucket))
      assigned == AssignGroups(buckets, db, codes, Len(codes), 0)
  IN SortBuckets(SafetyPass(assigned, db, Len(buckets), 0).buckets)

\* sortedBuckets: the buckets built, filled, capped and sorted
FinalBuckets(db, airportsList, groupSize, maxBucket) ==
  LET buckets == InitialBuckets(db, Len(db))
      html == TrimGroups(HtmlGroups(db, airportsList, Len(airportsList)).groups,
                         groupSize)
      keys == GroupKeys(buckets, Len(buckets))
      codes == GroupedCodes(ApplyFallbacks(html, db, keys, Len(keys), maxBucket))
      assigned == AssignGroups(buckets, db, codes, Len(codes), maxBucket)
      safe == SafetyPass(assigned, db, Len(buckets), maxBucket)
  IN SortBuckets(CapBuckets(safe.buckets, maxBucket))

\* every bucket's range starting at the head of the pool
PoolsStep_overlap(p, bucket) ==
  LET uniqueCodesForBucket ==
        SelectSeq(bucket.codes, LAMBDA code : code \notin p.poolCodeSet)
  IN [rows |-> Append(p.rows, [bucket |-> bucket, offset |-> 0,
                               count |-> Len(uniqueCodesForBucket)]),
      codePool |-> p.codePool \o uniqueCodesForBucket,
      namePool |-> p.namePool \o [k \in 1..Len(uniqueCodesForBucket) |->
                                    PlaceName(uniqueCodesForBucket[k])],
      poolCodeSet |-> p.poolCodeSet \cup
                        {uniqueCodesForBucket[k] :
                           k \in 1..Len(uniqueCodesForBucket)}]

\* the offset taken after the bucket's codes were added
PoolsStep_after(p, bucket) ==
  LET uniqueCodesForBucket ==
        SelectSeq(bucket.codes, LAMBDA code : code \notin p.poolCodeSet)
  IN [rows |-> Append(p.rows,
                 [bucket |-> bucket,
                  offset |-> Len(p.codePool) + Len(uniqueCodesForBucket),
                  count |-> Len(uniqueCodesForBucket)]),
      codePool |-> p.codePool \o uniqueCodesForBucket,
      namePool |-> p.namePool \o [k \in 1..Len(uniqueCodesForBucket) |->
                                    PlaceName(uniqueCodesForBucket[k])],
      poolCodeSet |-> p.poolCodeSet \cup
                        {uniqueCodesForBucket[k] :
                           k \in 1..Len(uniqueCodesForBucket)}]

\* Calculate final offsets and counts: one bucket.  (bucket.codes holds no
\* code twice, so the filter keeps each code of it that is not in the pool.)
PoolsStep(p, bucket) ==
  LET uniqueCodesForBucket ==
        SelectSeq(bucket.codes, LAMBDA code : code \notin p.poolCodeSet)
  IN [rows |-> Append(p.rows, [bucket |-> bucket, offset |-> Len(p.codePool),
                               count |-> Len(uniqueCodesForBucket)]),
      codePool |-> p.codePool \o uniqueCodesForBucket,
      namePool |-> p.namePool \o [k \in 1..Len(uniqueCodesForBucket) |->
                                    PlaceName(uniqueCodesForBucket[k])],
      poolCodeSet |-> p.poolCodeSet \cup
                        {uniqueCodesForBucket[k] :
                           k \in 1..Len(uniqueCodesForBucket)}]

RECURSIVE Pools(_, _)
\* the pools and rows after the first n sorted buckets
Pools(sortedBuckets, n) ==
  IF n = 0
  THEN [rows |-> <<>>, codePool |-> <<>>, namePool |-> <<>>, poolCodeSet |-> {}]
  ELSE PoolsStep(Pools(sortedBuckets, n - 1), sortedBuckets[n])

\* Math.round(seconds / 900): to the nearest integer, a half rounded up
Quarters(seconds) == (2 * seconds + 900) \div 1800

RECURSIVE NamePoolText(_)
\* airport_name_pool[]: "name\0" for each name of the pool
NamePoolText(namePool) ==
  IF namePool = <<>> THEN <<>>
  ELSE Head(namePool) \o <<0>> \o NamePoolText(Tail(namePool))

RECURSIVE ToHex(_)
\* bits.toString(16): the hexadecimal digits, most significant first
ToHex(bits) ==
  IF bits < 16 THEN <<bits>> ELSE Append(ToHex(bits \div 16), bits % 16)

RECURSIVE uint16_t(_)
\* the uint16_t initialised by the literal 0x<digits>
uint16_t(digits) ==
  IF digits = <<>> THEN 0
  ELSE (uint16_t(SubSeq(digits, 1, Len(digits) - 1)) * 16
          + digits[Len(digits)]) % 65536

\* The C file written: the two pools (each code pool entry 0x<hex> with its
\* code in a comment), airport_tz_list[] and the counts.
CFile(p) ==
  [airport_code_pool_bits |->
     [k \in 1..Len(p.codePool) |-> uint16_t(ToHex(PackCode(p.codePool[k])))],
   code_comments |-> p.codePool,
   AIRPORT_CODE_POOL_BITS_COUNT |-> Len(p.codePool),
   airport_name_pool |-> NamePoolText(p.namePool),
   airport_tz_list |->
     [k \in 1..Len(p.rows) |->
        [std_quarters |-> Quarters(p.rows[k].bucket.std),
         dst_quarters |-> Quarters(p.rows[k].bucket.dst),
         dst_start_utc |-> p.rows[k].bucket.start,
         dst_end_utc |-> p.rows[k].bucket.end,
         name_offset |-> p.rows[k].offset,
         name_count |-> p.rows[k].count]],
   AIRPORT_CODE_POOL_COUNT |-> Len(p.codePool),
   AIRPORT_NAME_POOL_COUNT |-> Len(p.namePool)]

\* generateCCode(airportsList, outPath, groupSize, maxBucket)
generateCCode(db, airportsList, groupSize, maxBucket) ==
  LET sortedBuckets == FinalBuckets(db, airportsList, groupSize, maxBucket)
  IN CFile(Pools(sortedBuckets, Len(sortedBuckets)))

\* no table generated yet
NoGen == [done |-> FALSE]

\* ------------------------------------------------------------- tzCommon.ts
\* findDstTransitions(zoneName, year) and the hour-by-hour reference
\* calculateTransitions(zoneName, year) of generateExpectedTransitions.ts,
\* for the year 2025.  A DateTime is its epoch second; null is <<>> and a
\* number n is <<n>> where a variable can hold either.

\* DateTime.utc(year, 1, 1) and DateTime.utc(year + 1, 1, 1) for year 2025
StartOfYear == 1735689600
StartOfNextYear == 1767225600
\* coarse step
STEP_HOURS == 6

\* dt.year === year
InYear(t) == StartOfYear <= t /\ t < StartOfNextYear

\* What Luxon knows of a zone: the two offsets, the instants of 2025 at which
\* the DST flag changes, and the flag at the start of the year.  Test/Flag is
\* a zone whose flag changes while its offsets are 30 seconds apart.
ZoneRule(zoneName) ==
  CASE zoneName = "Europe/London" ->
         [valid |-> TRUE, std |-> 0, dst |-> 3600, dstAtNewYear |-> FALSE,
          changes |-> <<1743296400, 1761440400>>]
    [] zoneName = "Australia/Lord_Howe" ->
         [valid |-> TRUE, std |-> 37800, dst |-> 39600, dstAtNewYear |-> TRUE,
          changes |-> <<1743865200, 1759591800>>]
    [] zoneName = "Australia/Adelaide" ->
         [valid |-> TRUE, std |-> 34200, dst |-> 37800, dstAtNewYear |-> TRUE,
          changes |-> <<1743870600, 1759595400>>]
    [] zoneName = "Asia/Tokyo" ->
         [valid |-> TRUE, std |-> 32400, dst |-> 32400, dstAtNewYear |-> FALSE,
          changes |-> <<>>]
    [] zoneName = "Test/Flag" ->
         [valid |-> TRUE, std |-> 3600, dst |-> 3630, dstAtNewYear |-> FALSE,
          changes |-> <<1743296400, 1761440400>>]
    [] zoneName = "Invalid/Zone" ->
         [valid |-> FALSE, std |-> 0, dst |-> 0, dstAtNewYear |-> FALSE,
          changes |-> <<>>]

ZoneNames ==
  {"Europe/London", "Australia/Lord_Howe", "Australia/Adelaide", "Asia/Tokyo",
   "Test/Flag", "Invalid/Zone"}

\* getTzDetails(zoneName, dt) of a valid zone: { offsetSeconds, isDST }
getTzDetails(zoneName, dt) ==
  LET rule == ZoneRule(zoneName)
      passed == Cardinality({k \in 1..Len(rule.changes) : rule.changes[k] <= dt})
      isDST == IF passed % 2 = 0 THEN rule.dstAtNewYear ELSE ~rule.dstAtNewYear
  IN [offsetSeconds |-> IF isDST THEN rule.dst ELSE rule.std, isDST |-> isDST]

\* Math.abs
Abs(x) == IF x < 0 THEN -x ELSE x

\* the result with the transitions kept whatever the two offsets are
Collapse_none(stdOffsetSec, dstOffsetSec, startTs, endTs) ==
  <<stdOffsetSec, dstOffsetSec, startTs, endTs>>

\* Treat zones with <60-second difference as non-DST; the result tuple.
Collapse(stdOffsetSec, dstOffsetSec, startTs, endTs) ==
  IF Abs(stdOffsetSec - dstOffsetSec) < 60
  THEN <<stdOffsetSec, stdOffsetSec, 0, 0>>
  ELSE <<stdOffsetSec, dstOffsetSec, startTs, endTs>>

RECURSIVE refineTransitionHour(_, _, _, _)
\* Binary search between two datetimes for the hour whose DST flag differs
\* from the lower bound: high.startOf('hour') once high - low <= 1 hour.
refineTransitionHour(zoneName, low, high, lowerIsDST) ==
  IF high - low > 3600
  THEN LET mid == low + (high - low) \div 2
       IN IF getTzDetails(zoneName, mid).isDST = lowerIsDST
          THEN refineTransitionHour(zoneName, mid, high, lowerIsDST)
          ELSE refineTransitionHour(zoneName, low, mid, lowerIsDST)
  ELSE high - (high % 3600)

\* findDstTransitions: the variables at the start of the coarse walk
FindStart(zoneName) ==
  LET cursor == StartOfYear - 3600
      firstDetails == getTzDetails(zoneName, cursor)
  IN [cursor |-> cursor, i |-> 0,
      prevIsDST |-> firstDetails.isDST,
      prevOffsetSec |-> firstDetails.offsetSeconds,
      stdOffsetSec |-> IF firstDetails.isDST THEN <<>>
                       ELSE <<firstDetails.offsetSeconds>>,
      dstOffsetSec |-> IF firstDetails.isDST
                       THEN <<firstDetails.offsetSeconds>> ELSE <<>>,
      startTs |-> 0, endTs |-> 0]

\* findDstTransitions: one iteration of the coarse walk
FindStep(zoneName, l) ==
  LET nextCursor == l.cursor + STEP_HOURS * 3600
      details == getTzDetails(zoneName, nextCursor)
      curIsDST == details.isDST
      curOffsetSec == details.offsetSeconds
      transitionHour ==
        refineTransitionHour(zoneName, l.cursor, nextCursor, l.prevIsDST)
  IN [cursor |-> IF curIsDST # l.prevIsDST THEN transitionHour + 3600
                 ELSE nextCursor,
      i |-> l.i,
      prevIsDST |-> curIsDST,
      prevOffsetSec |-> curOffsetSec,
      stdOffsetSec |-> IF curIsDST THEN l.stdOffsetSec ELSE <<curOffsetSec>>,
      dstOffsetSec |-> IF curIsDST THEN <<curOffsetSec>> ELSE l.dstOffsetSec,
      startTs |-> IF ~l.prevIsDST /\ curIsDST /\ InYear(transitionHour)
                  THEN transitionHour ELSE l.startTs,
      endTs |-> IF l.prevIsDST /\ ~curIsDST /\ InYear(transitionHour)
                THEN transitionHour ELSE l.endTs]

\* findDstTransitions: the final fallbacks and the result
FindResult(l) ==
  LET std1 == IF l.stdOffsetSec = <<>> /\ l.dstOffsetSec # <<>>
              THEN l.dstOffsetSec ELSE l.stdOffsetSec
      dst1 == IF l.dstOffsetSec = <<>> /\ std1 # <<>>
              THEN std1 ELSE l.dstOffsetSec
      std2 == IF std1 = <<>> THEN <<l.prevOffsetSec>> ELSE std1
      dst2 == IF dst1 = <<>> THEN std2 ELSE dst1
  IN Collapse(std2[1], dst2[1], l.startTs, l.endTs)

\* calculateTransitions: the variables before the loop
CalcStart(zoneName) ==
  LET currentDt == StartOfYear - 3600
      initialDetails == getTzDetails(zoneName, currentDt)
  IN [cursor |-> currentDt, i |-> 0,
      prevIsDST |-> initialDetails.isDST,
      prevOffsetSec |-> initialDetails.offsetSeconds,
      stdOffsetSec |-> IF ~initialDetails.isDST
                       THEN <<initialDetails.offsetSeconds>> ELSE <<>>,
      dstOffsetSec |-> IF ~initialDetails.isDST THEN <<>>
                       ELSE <<initialDetails.offsetSeconds>>,
      startTs |-> 0, endTs |-> 0]

\* calculateTransitions: totalHours
TotalHours == ((StartOfNextYear - StartOfYear) \div 86400) * 24 + 3

\* calculateTransitions: one iteration of the hourly loop
CalcStep(zoneName, l) ==
  LET currentDt == l.cursor + 3600
      details == getTzDetails(zoneName, currentDt)
      curIsDST == details.isDST
      curOffsetSec == details.offsetSeconds
      toggled == curIsDST # l.prevIsDST /\ InYear(currentDt)
  IN [cursor |-> currentDt, i |-> l.i + 1,
      prevIsDST |-> curIsDST,
      prevOffsetSec |-> curOffsetSec,
      stdOffsetSec |-> IF curIsDST THEN l.stdOffsetSec ELSE <<curOffsetSec>>,
      dstOffsetSec |-> IF curIsDST THEN <<curOffsetSec>> ELSE l.dstOffsetSec,
      startTs |-> IF toggled /\ ~l.prevIsDST /\ curIsDST
                  THEN currentDt ELSE l.startTs,
      endTs |-> IF toggled /\ l.prevIsDST /\ ~curIsDST
                THEN currentDt ELSE l.endTs]

\* calculateTransitions: the fallbacks and the result
CalcResult(l) ==
  LET std1 == IF l.stdOffsetSec = <<>> THEN <<l.prevOffsetSec>>
              ELSE l.stdOffsetSec
      dst1 == IF l.dstOffsetSec = <<>> THEN std1 ELSE l.dstOffsetSec
  IN Collapse(std1[1], dst1[1], l.startTs, l.endTs)

\* neither function called yet
NoTransitions ==
  [phase |-> "idle", zoneName |-> "", loop |-> <<>>, found |-> <<>>,
   expected |-> <<>>]

\* ------------------------------------------------------------ clock_tid.c
\* A uint64_t count of microseconds, kept as whole seconds and the
\* microseconds within the second: the value is sec * 1000000 + usec.
\* (uint64_t)seconds * 1000000 + (uint64_t)milliseconds * 1000
Micros(seconds, milliseconds) ==
  [sec |-> seconds + (milliseconds * 1000) \div 1000000,
   usec |-> (milliseconds * 1000) % 1000000]

\* a <= b on the microsecond counts
MicrosLeq(a, b) == a.sec < b.sec \/ (a.sec = b.sec /\ a.usec <= b.usec)

\* a < b on the microsecond counts
MicrosLess(a, b) == a.sec < b.sec \/ (a.sec = b.sec /\ a.usec < b.usec)

\* a + 1
MicrosSucc(a) ==
  IF a.usec = 999999 THEN [sec |-> a.sec + 1, usec |-> 0]
  ELSE [sec |-> a.sec, usec |-> a.usec + 1]

\* the tie-break comparing with < : an input equal to the last timestamp is
\* used as it is
Monotonic_strict(current_micros, last) ==
  IF MicrosLess(current_micros, last) THEN MicrosSucc(last) ELSE current_micros

\* if (current_micros <= last_timestamp) current_micros = last_timestamp + 1;
Monotonic(current_micros, last) ==
  IF MicrosLeq(current_micros, last) THEN MicrosSucc(last) ELSE current_micros

\* no clock_tid_get_string call yet
NoTidCall == [n |-> 0, tid_buffer_len |-> 0, seconds |-> 0, milliseconds |-> 0]

\* clock_tid_get_string(tid_buffer, tid_buffer_len, seconds, milliseconds)
clock_tid_get_string(tid_buffer_len, seconds, milliseconds) ==
  /\ tid_call' = [n |-> tid_call.n + 1, tid_buffer_len |-> tid_buffer_len,
                  seconds |-> seconds, milliseconds |-> milliseconds]
  /\ IF tid_buffer_len < 14
     THEN \* Ensure buffer is large enough
          UNCHANGED <<last_timestamp, tid_timestamp>>
     ELSE LET current_micros ==
                Monotonic(Micros(seconds, milliseconds), last_timestamp)
          IN /\ last_timestamp' = current_micros
             /\ tid_timestamp' = current_micros

\* createRaw_c and s32encode_c.  Here a uint64_t is its 13 base-32 digits,
\* most significant first (the first digit is below 16): i & 31 is the last
\* digit and i >>= 5 drops it.  Strings are sequences of character codes.
S32_CHAR ==
  <<50, 51, 52, 53, 54, 55, 97, 98, 99, 100, 101, 102, 103, 104, 105, 106,
    107, 108, 109, 110, 111, 112, 113, 114, 115, 116, 117, 118, 119, 120,
    121, 122>>

\* the uint64_t 0
Zero64 == [k \in 1..13 |-> 0]

RECURSIVE Digits64(_, _, _)
\* the last k base-32 digits of the uint64_t sec * 1000000 + usec
Digits64(sec, usec, k) ==
  IF k = 0 THEN <<>>
  ELSE LET low == (sec % 32) * 1000000 + usec
       IN Append(Digits64(sec \div 32, low \div 32, k - 1), low % 32)

RECURSIVE s32encode_loop(_, _)
\* the while loop of s32encode_c with room for `room` more characters: the
\* characters written
s32encode_loop(i, room) ==
  IF i = Zero64 \/ room = 0 THEN <<>>
  ELSE Append(s32encode_loop(<<0>> \o SubSeq(i, 1, 12), room - 1),
              S32_CHAR[i[13] + 1])

\* s32encode_c(i, buffer, buffer_len): the characters from the returned
\* pointer to the end of the buffer (none for NULL)
s32encode_c(i, buffer_len) ==
  IF buffer_len = 0 THEN <<>>
  ELSE IF i = Zero64 THEN <<S32_CHAR[1]>>
  ELSE s32encode_loop(i, buffer_len)

\* createRaw_c writing the timestamp field left-aligned
createRaw_c_left(timestamp) ==
  LET encoded == s32encode_c(timestamp, 11)
  IN encoded \o [k \in 1..(11 - Len(encoded)) |-> S32_CHAR[1]]
       \o <<S32_CHAR[1], S32_CHAR[1]>>

\* createRaw_c(timestamp, tid_buffer, tid_buffer_len) for a buffer of 14:
\* the 13 characters before the terminating NUL
createRaw_c(timestamp) ==
  LET encoded == s32encode_c(timestamp, 11)
  IN [k \in 1..(11 - Len(encoded)) |-> S32_CHAR[1]] \o encoded
       \o <<S32_CHAR[1], S32_CHAR[1]>>

\* The timestamps encoded: 0, 1, 31, 32, 2^55 - 1, 2^55, 2^55 + 1, 2^64 - 1,
\* and 2025-01-15 11:00:00 UTC in microseconds, that plus 1 and plus 1000.
RawTimestamps ==
  {Zero64, [Zero64 EXCEPT ![13] = 1], [Zero64 EXCEPT ![13] = 31],
   [Zero64 EXCEPT ![12] = 1], [k \in 1..13 |-> IF k <= 2 THEN 0 ELSE 31],
   [Zero64 EXCEPT ![2] = 1], [Zero64 EXCEPT ![2] = 1, ![13] = 1],
   [k \in 1..13 |-> IF k = 1 THEN 15 ELSE 31],
   Digits64(1736938800, 0, 13), Digits64(1736938800, 1, 13),
   Digits64(1736938800, 1000, 13)}

\* nothing encoded yet
NoRaw ==
  [n |-> 0, timestamp |-> Zero64, tid |-> <<>>, last_timestamp |-> Zero64,
   last_tid |-> <<>>]

\* ------------------------------------------------------ clock_closest_noon.c
\* The older city selector (first definition in the file).  Its tz_list[] has
\* the same rows with the offsets as float hours (std_offset_hours,
\* dst_offset_hours); they are kept in quarter hours like the airport table,
\* and tz_name_pool[] is read through the flat name pool.
NOON_SECONDS == 12 * 3600

\* "Wait...", the city name before the first selection and when none is found
WAIT == <<87, 97, 105, 116, 46, 46, 46>>

\* Determine DST active (the scan loop): is_dst after the nested ifs
NoonScanIsDst(tz, now) ==
  IF tz.dst_start_utc # 0 /\ tz.dst_end_utc # 0
  THEN \/ /\ tz.dst_start_utc <= tz.dst_end_utc
          /\ now >= tz.dst_start_utc
          /\ now < tz.dst_end_utc
       \/ /\ tz.dst_start_utc > tz.dst_end_utc
          /\ (now >= tz.dst_start_utc \/ now < tz.dst_end_utc)
  ELSE FALSE

\* is_dst as the selection branch recomputes it for the winner
NoonStoreIsDst(tz, now) == now >= tz.dst_start_utc /\ now < tz.dst_end_utc

\* local_secs of tz_list[i] in the scan loop
NoonLocalSecs(tz, current_utc_t) ==
  LET utc_secs == current_utc_t % DAY_SECONDS
      off == IF NoonScanIsDst(tz, current_utc_t) THEN tz.dst_quarters
             ELSE tz.std_quarters
      local_secs == CRem(utc_secs + OffsetSeconds(off), DAY_SECONDS)
  IN IF local_secs < 0 THEN local_secs + DAY_SECONDS ELSE local_secs

RECURSIVE NoonScan(_, _)
\* the scan loop after the iterations i = 0 .. n-1: best_delta and
\* best_candidates[0 .. best_count)
NoonScan(n, current_utc_t) ==
  IF n = 0 THEN [best_delta |-> LONG_MAX, best_candidates |-> <<>>]
  ELSE LET acc == NoonScan(n - 1, current_utc_t)
           i == n - 1
           local_secs == NoonLocalSecs(TZ_LIST(i), current_utc_t)
           delta == local_secs - NOON_SECONDS
       IN IF local_secs < NOON_SECONDS THEN acc
          ELSE IF delta < acc.best_delta
               THEN [best_delta |-> delta, best_candidates |-> <<i>>]
               ELSE IF delta = acc.best_delta
                       /\ Len(acc.best_candidates) < TZ_LIST_COUNT
                    THEN [acc EXCEPT !.best_candidates = Append(@, i)]
                    ELSE acc

\* the file's statics after clock_closest_noon_city_init and _time_init; idx
\* and is_dst keep what the last evaluation computed (is_dst[i + 1] for
\* tz_list[i] in the scan)
NoNoon ==
  [s_last_re_evaluation_time |-> UNSET, s_selected_city_name |-> WAIT,
   s_selected_offset_hours |-> 0, idx |-> -1, is_dst |-> <<>>]

\* update_selected_timezone_and_city(current_utc_t); every bucket of the
\* table has at least one name
update_selected_timezone_and_city(current_utc_t) ==
  LET found == NoonScan(TZ_LIST_COUNT, current_utc_t)
      best_count == Len(found.best_candidates)
      r1 == IF best_count = 1 THEN srand(current_utc_t)
            ELSE rand_step(srand(current_utc_t))
      pick == IF best_count = 1 THEN 0 ELSE rand_value(r1) % best_count
      i == found.best_candidates[pick + 1]
      tz == TZ_LIST(i)
      cnt == tz.name_count
      r2 == IF cnt = 1 THEN r1 ELSE rand_step(r1)
      ni == IF cnt = 1 THEN 0 ELSE rand_value(r2) % cnt
      scanned == [k \in 1..TZ_LIST_COUNT |->
                    NoonScanIsDst(tz_list[k], current_utc_t)]
  IN /\ rand_draws' = 0
     /\ IF best_count = 0
        THEN /\ noon' = [s_last_re_evaluation_time |-> current_utc_t,
                         s_selected_city_name |-> WAIT,
                         s_selected_offset_hours |-> 0,
                         idx |-> -1, is_dst |-> scanned]
             /\ rand_next' = srand(current_utc_t)
        ELSE /\ noon' = [s_last_re_evaluation_time |-> current_utc_t,
                         s_selected_city_name |->
                           CString(airport_name_pool,
                                   _airport_flat_name(airport_name_pool, 0,
                                                      tz.name_offset + ni)),
                         s_selected_offset_hours |->
                           IF NoonStoreIsDst(tz, current_utc_t)
                           THEN tz.dst_quarters ELSE tz.std_quarters,
                         idx |-> i, is_dst |-> scanned]
             /\ rand_next' = r2

\* ------------------------------------------------------------ watchface.c
\* update_closest_noon_time of the first watchface.  A row of its tz_list is
\* {offset_hours, names, name_count}; offset_hours is a float holding a
\* multiple of 0.25, kept here in quarter-hours.  A name pointer is the pair
\* <<row, name index>>; NULL and the literal "???" are pointers of their own.
DAY_LENGTH == 86400

NULL == <<>>

UnknownName == <<-1, -1>>

\* UTC-11, UTC-5 with two names, UTC, UTC+1 with two names, UTC+5:45, and
\* UTC+13 with two names (the same time of day as UTC-11)
WfTzList ==
  <<[offset_quarters |-> -44, name_count |-> 1],
    [offset_quarters |-> -20, name_count |-> 2],
    [offset_quarters |-> 0, name_count |-> 1],
    [offset_quarters |-> 4, name_count |-> 2],
    [offset_quarters |-> 23, name_count |-> 1],
    [offset_quarters |-> 52, name_count |-> 2]>>

\* 2025-01-15 UTC: 11:00:00 and 11:00:01 (UTC+1 alone is closest), 11:29:59,
\* 11:30:00 (UTC and UTC+1 tie), 11:30:01 (UTC alone), 17:00:00 (UTC-5),
\* 23:00:00 and 23:00:01 (UTC-11 and UTC+13 tie)
WfInstants ==
  {1736938800, 1736938801, 1736940599, 1736940600, 1736940601, 1736960400,
   1736982000, 1736982001}

\* long current_min_diff of row i at utc_seconds_today
WfMinDiff(i, utc_seconds_today) ==
  LET offset_seconds == WfTzList[i + 1].offset_quarters * 900
      sum == utc_seconds_today + offset_seconds
      local_seconds_today == (CRem(sum, DAY_LENGTH) + DAY_LENGTH) % DAY_LENGTH
      diff1 == Abs(local_seconds_today - NOON_SECONDS)
  IN IF diff1 <= DAY_LENGTH \div 2 THEN diff1 ELSE DAY_LENGTH - diff1

RECURSIVE WfScan(_, _)
\* the loop over tz_list after n rows: min_diff_secs and the candidates
WfScan(n, utc_seconds_today) ==
  IF n = 0
  THEN [min_diff_secs |-> DAY_LENGTH, current_candidate_indices |-> <<>>]
  ELSE LET before == WfScan(n - 1, utc_seconds_today)
           i == n - 1
           current_min_diff == WfMinDiff(i, utc_seconds_today)
       IN IF current_min_diff < before.min_diff_secs
          THEN [min_diff_secs |-> current_min_diff,
                current_candidate_indices |-> <<i>>]
          ELSE IF /\ current_min_diff = before.min_diff_secs
                  /\ Len(before.current_candidate_indices) < Len(WfTzList)
          THEN [before EXCEPT !.current_candidate_indices = Append(@, i)]
          ELSE before

RECURSIVE qsort_ints(_)
\* qsort(base, nmemb, sizeof(int), compare_ints)
qsort_ints(base) ==
  IF base = <<>> THEN <<>>
  ELSE LET least == CHOOSE k \in 1..Len(base) :
                      \A j \in 1..Len(base) : base[k] <= base[j]
       IN <<base[least]>> \o
            qsort_ints([j \in 1..(Len(base) - 1) |->
                          IF j < least THEN base[j] ELSE base[j + 1]])

\* are_candidate_sets_equal(set1, count1, set2, count2), a set with its count
\* being a sequence
are_candidate_sets_equal(set1, set2) ==
  /\ Len(set1) = Len(set2)
  /\ \A i \in 1..Len(set1) : set1[i] = set2[i]

\* reuse_last_name, never reusing
reuse_last_name_reroll(last_name, current, last) ==
  /\ last_name # NULL
  /\ FALSE

\* bool reuse_last_name
reuse_last_name(last_name, current, last) ==
  /\ last_name # NULL
  /\ are_candidate_sets_equal(current, last)

\* before the first update
NoWf ==
  [n |-> 0, last_closest_noon_update_secs |-> -1,
   last_closest_candidate_indices |-> <<>>,
   last_chosen_closest_name |-> NULL, final_name |-> NULL,
   returned_early |-> FALSE, current |-> <<>>, recorded |-> <<>>,
   name_before |-> NULL, selected |-> FALSE, draws |-> 0]

\* update_closest_noon_time(current_seconds_utc).  Beside the statics and the
\* name put on the layer, wf keeps of the call: the sorted winning set, the
\* set and name recorded when it began, whether the selection block chose a
\* place, and how many times rand() was called.
update_closest_noon_time(current_seconds_utc) ==
  IF current_seconds_utc = wf.last_closest_noon_update_secs
  THEN /\ wf' = [wf EXCEPT !.n = @ + 1, !.returned_early = TRUE]
       /\ UNCHANGED <<rand_next, rand_draws>>
  ELSE
  LET utc_seconds_today == current_seconds_utc % DAY_LENGTH
      scanned == WfScan(Len(WfTzList), utc_seconds_today)
      current == IF Len(scanned.current_candidate_indices) > 1
                 THEN qsort_ints(scanned.current_candidate_indices)
                 ELSE scanned.current_candidate_indices
      count == Len(current)
      reuse == reuse_last_name(wf.last_chosen_closest_name, current,
                               wf.last_closest_candidate_indices)
      r1 == IF count = 1 THEN rand_next ELSE rand_step(rand_next)
      chosen_list_index ==
        IF count = 1 THEN current[1]
        ELSE current[(rand_value(r1) % count) + 1]
      name_count == WfTzList[chosen_list_index + 1].name_count
      r2 == IF name_count <= 1 THEN r1 ELSE rand_step(r1)
      name_index == IF name_count = 1 THEN 0 ELSE rand_value(r2) % name_count
      chosen_name == IF name_count > 0 /\ name_index < name_count
                     THEN <<chosen_list_index, name_index>>
                     ELSE UnknownName
      seen == [wf EXCEPT !.n = @ + 1, !.returned_early = FALSE,
                         !.current = current,
                         !.recorded = wf.last_closest_candidate_indices,
                         !.name_before = wf.last_chosen_closest_name,
                         !.last_closest_noon_update_secs =
                            current_seconds_utc]
  IN IF reuse
     THEN /\ wf' = [seen EXCEPT !.final_name = wf.last_chosen_closest_name,
                                !.selected = FALSE, !.draws = 0]
          /\ UNCHANGED <<rand_next, rand_draws>>
     ELSE IF count > 0
     THEN /\ wf' = [seen EXCEPT !.final_name = chosen_name,
                                !.last_chosen_closest_name = chosen_name,
                                !.last_closest_candidate_indices = current,
                                !.selected = TRUE,
                                !.draws = (IF count = 1 THEN 0 ELSE 1) +
                                          (IF name_count <= 1 THEN 0 ELSE 1)]
          /\ rand_next' = r2
          /\ rand_draws' = 0
     ELSE /\ wf' = [seen EXCEPT !.final_name = UnknownName,
                                !.last_chosen_closest_name = NULL,
                                !.last_closest_candidate_indices = <<>>,
                                !.selected = FALSE, !.draws = 0]
          /\ UNCHANGED <<rand_next, rand_draws>>

\* ------------------------------------------------------------ pkjs/index.js
\* The companion script.  A JSON entry that is null makes buildIndex throw at
\* entry.iata; "" stands for a missing field and "undefined" for a missing
\* key of the payload.
REQUEST_AIRPORT_INFO == 1

\* String.prototype.toUpperCase on the codes used here
toUpperCase(s) ==
  CASE s = "lhr" -> "LHR"
    [] s = "jfk" -> "JFK"
    [] s = "zzz" -> "ZZZ"
    [] OTHER -> s

\* What the dataset URL can answer: the dataset (one entry without an iata
\* field, one with a lower-case code), the dataset with a null entry in the
\* middle, a body that is not JSON, and a 404.
Responses ==
  {[status |-> 200, parses |-> TRUE,
    json |-> <<[null |-> FALSE, iata |-> "LHR", city |-> "London",
                country |-> "GB"],
               [null |-> FALSE, iata |-> "", city |-> "Nowhere",
                country |-> "ZZ"],
               [null |-> FALSE, iata |-> "jfk", city |-> "New York",
                country |-> "US"]>>],
   [status |-> 200, parses |-> TRUE,
    json |-> <<[null |-> FALSE, iata |-> "LHR", city |-> "London",
                country |-> "GB"],
               [null |-> TRUE, iata |-> "", city |-> "", country |-> ""],
               [null |-> FALSE, iata |-> "jfk", city |-> "New York",
                country |-> "US"]>>],
   [status |-> 200, parses |-> FALSE, json |-> <<>>],
   [status |-> 404, parses |-> FALSE, json |-> <<>>]}

\* The appmessages the watch can send: no payload, another request type, and
\* REQUEST_AIRPORT_INFO with a code of the dataset, one in lower case, one
\* not in the dataset, or no code.
Payloads ==
  {[payload |-> FALSE, type |-> 0, code |-> "undefined"],
   [payload |-> TRUE, type |-> 2, code |-> "LHR"]}
    \cup {[payload |-> TRUE, type |-> REQUEST_AIRPORT_INFO, code |-> c] :
            c \in {"LHR", "jfk", "ZZZ", "undefined"}}

RECURSIVE buildIndex(_, _, _)
\* buildIndex(json) from the n-th entry on: airportIndex as it is when the
\* forEach ends or throws
buildIndex(airportIndex, json, n) ==
  IF n > Len(json) THEN airportIndex
  ELSE LET entry == json[n]
       IN IF entry.null THEN airportIndex
          ELSE IF entry.iata # "" /\ entry.city # "" /\ entry.country # ""
          THEN buildIndex(
                 {e \in airportIndex : e.iata # toUpperCase(entry.iata)}
                   \cup {[iata |-> toUpperCase(entry.iata),
                          city |-> entry.city, country |-> entry.country]},
                 json, n + 1)
          ELSE buildIndex(airportIndex, json, n + 1)

\* lookupAirport(iata): the entries found (none for null)
lookupAirport(airportIndex, iata) ==
  IF iata = "undefined" \/ iata = "" THEN {}
  ELSE {e \in airportIndex : e.iata = toUpperCase(iata)}

\* The callback the listener gives loadAirportData, for appmessage r: the
\* sendAppMessage calls with the new one.  to and loaded are not part of the
\* message: the appmessage whose callback sent it, and whether airportData
\* was set.
Callback(state, r) ==
  LET info == lookupAirport(state.airportIndex, state.messages[r].code)
      found == CHOOSE e \in info : TRUE
  IN Append(state.sent,
            IF info # {}
            THEN [to |-> r, loaded |-> state.airportData,
                  KEY_CITY |-> found.city, KEY_COUNTRY |-> found.country]
            ELSE [to |-> r, loaded |-> state.airportData,
                  KEY_CITY |-> "?", KEY_COUNTRY |-> ""])

\* the script loaded, nothing received: airportData null, airportIndex {}
NoJs ==
  [airportData |-> FALSE, airportIndex |-> {}, messages |-> <<>>,
   xhr |-> <<>>, sent |-> <<>>]

\* ------------------------------------------------------- the tick handler
\* The watchface calls the update operation from its tick handler, once for
\* every second, with the target the configuration holds.
\* Rows of a table with a whole-hour, DST, wrap-around half-hour and
\* 45-minute variant: UTC-5; UTC+1/+2 with the DST window [2025-03-30 01:00Z,
\* 2025-10-26 01:00Z); UTC+9:30/+10:30 with DST from 2025-10-04 16:30Z to
\* 2025-04-05 16:30Z; UTC+5:45.
TickRows ==
  <<[std_quarters |-> -20, dst_quarters |-> -20, dst_start_utc |-> 0,
     dst_end_utc |-> 0, name_offset |-> 0, name_count |-> 1],
    [std_quarters |-> 4, dst_quarters |-> 8, dst_start_utc |-> 1743296400,
     dst_end_utc |-> 1761440400, name_offset |-> 1, name_count |-> 1],
    [std_quarters |-> 38, dst_quarters |-> 42, dst_start_utc |-> 1759595400,
     dst_end_utc |-> 1743870600, name_offset |-> 2, name_count |-> 1],
    [std_quarters |-> 23, dst_quarters |-> 23, dst_start_utc |-> 0,
     dst_end_utc |-> 0, name_offset |-> 3, name_count |-> 1]>>
\* What a run is given: the buckets whose codes fill the pools of those rows;
\* the table lengths run (the first row alone, and all rows); the first ticks,
\* 2025-01-15 06:00:07 and 2025-03-30 00:30:07 UTC; the targets, 02:00 and
\* noon.
TickInputs ==
  [order |-> <<1, 2, 4, 5>>, lengths |-> {1, 4},
   starts |-> {1736920807, 1743294607}, targets |-> {7200, 43200}]

\* before the first tick
NoTick == [set |-> FALSE, now |-> 0, target |-> 0, n |-> 0]

\* ------------------------------------------------------------- behaviours
NoMemo == [set |-> FALSE]

\* no alignment computed yet; the last evaluation was at boot, off the grid
NoAlign ==
  [set |-> FALSE, target_seconds_of_day |-> 0, quarters |-> 0,
   reach_utc |-> AlignDay - 1, due |-> FALSE]

\* The static storage at start, and the two layers as the init calls leave
\* them.
Booted ==
  /\ s_last_update_time = UNSET
  /\ s_last_re_eval_time = UNSET
  /\ s_selected_code = PLACEHOLDER
  /\ s_selected_name = PLACEHOLDER
  /\ s_selected_offset_hours = 0
  /\ code_layer_text = PLACEHOLDER
  /\ time_layer_text = <<-1, -1>>
  /\ rand_next = 1
  /\ rand_draws = 0
  /\ best_candidates = <<>>
  /\ idx = -1
  /\ eval_target = 0
  /\ last_call = [outcome |-> "none", first |-> FALSE, before |-> PLACEHOLDER]
  /\ memo = NoMemo
  /\ fault = "none"
  /\ align = NoAlign
  /\ last_timestamp = Micros(0, 0)
  /\ tid_timestamp = Micros(0, 0)
  /\ tid_call = NoTidCall
  /\ gen = NoGen
  /\ tzc = NoTransitions
  /\ noon = NoNoon
  /\ tick = NoTick
  /\ raw = NoRaw
  /\ wf = NoWf
  /\ js = NoJs

\* The state after clock_closest_airport_noon_code_init and
\* clock_closest_airport_noon_time_init, for each table explored.
Init ==
  /\ \E order \in Orders :
       /\ tz_list = TzList(order)
       /\ airport_code_pool_bits = CodePoolBits(order)
       /\ airport_name_pool = NamePool(order)
  /\ Booted

Update ==
  \E current_utc_t \in Instants, target_seconds_of_day \in Targets :
    /\ clock_closest_airport_noon_update(current_utc_t, target_seconds_of_day)
    /\ UNCHANGED aux

Next == Update

Spec == Init /\ [][Next]_vars

\* The selector on its own: _airport_pick_new called directly with any
\* instant and target, between rand() calls made by the rest of the program.
\* memo remembers the first evaluation of the behaviour, and whether the same
\* instant and target were evaluated again from a state that another
\* evaluation or further rand() calls had left.
PickNew ==
  \E current_utc_t \in PickInstants, target_seconds_of_day \in Targets :
    /\ _airport_pick_new(current_utc_t, target_seconds_of_day)
    /\ memo' =
         IF ~memo.set
         THEN [set |-> TRUE, now |-> current_utc_t,
               target |-> target_seconds_of_day,
               code |-> s_selected_code', name |-> s_selected_name',
               offset |-> s_selected_offset_hours', again |-> FALSE]
         ELSE IF /\ memo.now = current_utc_t
                 /\ memo.target = target_seconds_of_day
                 /\ \/ s_last_re_eval_time # current_utc_t
                    \/ eval_target # target_seconds_of_day
                    \/ rand_draws > 0
              THEN [memo EXCEPT !.again = TRUE]
              ELSE memo
    /\ UNCHANGED <<table, s_last_update_time, code_layer_text,
                   time_layer_text, last_call>>
    /\ UNCHANGED aux

\* rand() called by another part of the program
RandElsewhere ==
  /\ rand_draws < MaxDraws
  /\ rand_next' = rand_step(rand_next)
  /\ rand_draws' = rand_draws + 1
  /\ UNCHANGED <<table, s_last_update_time, s_last_re_eval_time,
                 s_selected_code, s_selected_name, s_selected_offset_hours,
                 code_layer_text, time_layer_text, best_candidates, idx,
                 eval_target, last_call, memo, fault>>
  /\ UNCHANGED aux

NextPick == PickNew \/ RandElsewhere

SpecPick == Init /\ [][NextPick]_vars

\* A table whose second bucket (UTC+1, no DST) has no place: name_count 0
\* between New York's and London's entries of the pools.
EmptyBucketTable ==
  [tz_list |->
     <<[std_quarters |-> -20, dst_quarters |-> -20, dst_start_utc |-> 0,
        dst_end_utc |-> 0, name_offset |-> 0, name_count |-> 1],
       [std_quarters |-> 4, dst_quarters |-> 4, dst_start_utc |-> 0,
        dst_end_utc |-> 0, name_offset |-> 1, name_count |-> 0],
       [std_quarters |-> 0, dst_quarters |-> 4,
        dst_start_utc |-> 1743296400, dst_end_utc |-> 1761440400,
        name_offset |-> 1, name_count |-> 1]>>,
   airport_code_pool_bits |-> CodePoolBits(<<1, 2>>),
   airport_name_pool |-> NamePool(<<1, 2>>)]

\* The same start over the table with the empty bucket.
InitEmpty ==
  /\ tz_list = EmptyBucketTable.tz_list
  /\ airport_code_pool_bits = EmptyBucketTable.airport_code_pool_bits
  /\ airport_name_pool = EmptyBucketTable.airport_name_pool
  /\ Booted

\* update calls for as long as the program runs
UpdateRunning == fault = "none" /\ Update

NextEmpty == UpdateRunning

SpecEmpty == InitEmpty /\ [][NextEmpty]_vars

\* The start with the one-row table, for the parts of the program that do
\* not read the table.
InitOneRow == Init /\ tz_list = TzList(<<1>>)

\* The UTC instant of AlignDay at which a variant with the given active
\* offset shows the target as its local time of day (e.g. UTC+5:45 -> 12:00
\* at 06:15 UTC).
ReachUtc(target_seconds_of_day, quarters) ==
  AlignDay + ((target_seconds_of_day - OffsetSeconds(quarters)) % DAY_SECONDS)

\* The update arriving at the instant a standard offset reaches a whole-hour
\* target, the previous evaluation having been at boot (off the grid) or a
\* quarter of an hour earlier: is the evaluation due?
Align ==
  \E target_seconds_of_day \in WholeHourTargets, quarters \in StandardOffsets :
    LET reach == ReachUtc(target_seconds_of_day, quarters)
    IN /\ ~align.set
       /\ \E last_re_eval_time \in {align.reach_utc, reach - 900} :
            align' = [set |-> TRUE,
                      target_seconds_of_day |-> target_seconds_of_day,
                      quarters |-> quarters, reach_utc |-> reach,
                      due |-> needs_eval(reach, last_re_eval_time)]
       /\ UNCHANGED selector
       /\ UNCHANGED <<tid, gen, tzc>>
       /\ UNCHANGED rest

NextAlign == Align

\* The TID clock called with any clock reading, the clock source going
\* forward, standing still or going back between calls.
TidGetString ==
  \E tid_buffer_len \in TidBufferLens, seconds \in TidSeconds,
     milliseconds \in TidMilliseconds :
    /\ tid_call.n < MaxTidCalls
    /\ clock_tid_get_string(tid_buffer_len, seconds, milliseconds)
    /\ UNCHANGED selector
    /\ UNCHANGED <<align, gen, tzc>>
    /\ UNCHANGED rest

NextTid == TidGetString

SpecTid == InitOneRow /\ [][NextTid]_vars

\* The HTML lists: every sequence of at most MaxList codes of ListCodes.
RECURSIVE ListsOfLen(_)
ListsOfLen(n) ==
  IF n = 0 THEN {<<>>}
  ELSE {Append(l, c) : l \in ListsOfLen(n - 1), c \in ListCodes}

AirportsLists == UNION {ListsOfLen(n) : n \in 0..MaxList}

\* One run of the table generator.
Generate ==
  \E airportsList \in AirportsLists, groupSize \in GroupSizes,
     maxBucket \in MaxBuckets :
    /\ ~gen.done
    /\ gen' = [done |-> TRUE, airportsList |-> airportsList,
               groupSize |-> groupSize, maxBucket |-> maxBucket,
               file |-> generateCCode(AirportData, airportsList, groupSize,
                                      maxBucket)]
    /\ UNCHANGED selector
    /\ UNCHANGED <<align, tid, tzc>>
    /\ UNCHANGED rest

NextGen == Generate

SpecGen == InitOneRow /\ [][NextGen]_vars

SpecAlign == InitOneRow /\ [][NextAlign]_vars


\* findDstTransitions(zoneName, year) called: the early return for an
\* invalid zone, or the start of the coarse walk
FindCall ==
  \E zoneName \in ZoneNames :
    /\ tzc.phase = "idle"
    /\ tzc' = IF ~ZoneRule(zoneName).valid
              THEN [tzc EXCEPT !.phase = "found", !.zoneName = zoneName,
                               !.found = <<0, 0, 0, 0>>]
              ELSE [tzc EXCEPT !.phase = "find", !.zoneName = zoneName,
                               !.loop = FindStart(zoneName)]
    /\ UNCHANGED selector
    /\ UNCHANGED <<align, tid, gen>>
    /\ UNCHANGED rest

\* while (cursor <= endBoundary): one iteration
FindWalk ==
  /\ tzc.phase = "find"
  /\ tzc.loop.cursor <= StartOfNextYear + 2 * 3600
  /\ tzc' = [tzc EXCEPT !.loop = FindStep(tzc.zoneName, tzc.loop)]
  /\ UNCHANGED selector
  /\ UNCHANGED <<align, tid, gen>>
  /\ UNCHANGED rest

\* the walk is over: findDstTransitions returns
FindReturn ==
  /\ tzc.phase = "find"
  /\ tzc.loop.cursor > StartOfNextYear + 2 * 3600
  /\ tzc' = [tzc EXCEPT !.phase = "found", !.loop = <<>>,
                        !.found = FindResult(tzc.loop)]
  /\ UNCHANGED selector
  /\ UNCHANGED <<align, tid, gen>>
  /\ UNCHANGED rest

\* calculateTransitions(zoneName, year) called for the same zone
CalcCall ==
  /\ tzc.phase = "found"
  /\ tzc' = IF ~ZoneRule(tzc.zoneName).valid
            THEN [tzc EXCEPT !.phase = "done", !.expected = <<0, 0, 0, 0>>]
            ELSE [tzc EXCEPT !.phase = "calc",
                             !.loop = CalcStart(tzc.zoneName)]
  /\ UNCHANGED selector
  /\ UNCHANGED <<align, tid, gen>>
  /\ UNCHANGED rest

\* for (let i = 0; i < totalHours; i++): one iteration
CalcLoop ==
  /\ tzc.phase = "calc"
  /\ tzc.loop.i < TotalHours
  /\ tzc' = [tzc EXCEPT !.loop = CalcStep(tzc.zoneName, tzc.loop)]
  /\ UNCHANGED selector
  /\ UNCHANGED <<align, tid, gen>>
  /\ UNCHANGED rest

\* the loop is over: calculateTransitions returns
CalcReturn ==
  /\ tzc.phase = "calc"
  /\ tzc.loop.i >= TotalHours
  /\ tzc' = [tzc EXCEPT !.phase = "done", !.loop = <<>>,
                        !.expected = CalcResult(tzc.loop)]
  /\ UNCHANGED selector
  /\ UNCHANGED <<align, tid, gen>>
  /\ UNCHANGED rest

NextTz ==
  \/ FindCall
  \/ FindWalk
  \/ FindReturn
  \/ CalcCall
  \/ CalcLoop
  \/ CalcReturn

SpecTz == InitOneRow /\ [][NextTz]_vars


\* The older selector on its own: update_selected_timezone_and_city called
\* with any instant.
NoonSelect ==
  \E current_utc_t \in PickInstants :
    /\ update_selected_timezone_and_city(current_utc_t)
    /\ UNCHANGED <<table, s_last_update_time, s_last_re_eval_time,
                   s_selected_code, s_selected_name, s_selected_offset_hours,
                   code_layer_text, time_layer_text, best_candidates, idx,
                   eval_target, last_call, memo, fault>>
    /\ UNCHANGED <<align, tid, gen, tzc, tick, raw, wf, js>>

NextNoon == NoonSelect \/ RandElsewhere

SpecNoon == Init /\ [][NextNoon]_vars

\* The start of a run of ticks over the table rows: boot, and no tick yet.
InitTick ==
  /\ \E k \in TickInputs.lengths :
       /\ tz_list = SubSeq(TickRows, 1, k)
       /\ airport_code_pool_bits = CodePoolBits(SubSeq(TickInputs.order, 1, k))
       /\ airport_name_pool = NamePool(SubSeq(TickInputs.order, 1, k))
  /\ Booted

\* The watchface starts: the instant of its first tick and the configured
\* target.
TickStart ==
  \E start \in TickInputs.starts, target_seconds_of_day \in TickInputs.targets :
    /\ ~tick.set
    /\ tick' = [set |-> TRUE, now |-> start,
                target |-> target_seconds_of_day, n |-> 0]
    /\ UNCHANGED selector
    /\ UNCHANGED <<align, tid, gen, tzc, noon, raw, wf, js>>

\* One tick: the update operation at the current second; the next tick
\* comes a second later.
Tick ==
  /\ tick.set
  /\ tick.n < MaxTicks
  /\ clock_closest_airport_noon_update(tick.now, tick.target)
  /\ tick' = [tick EXCEPT !.now = @ + 1, !.n = @ + 1]
  /\ UNCHANGED <<align, tid, gen, tzc, noon, raw, wf, js>>

NextTick == TickStart \/ Tick

SpecTick == InitTick /\ [][NextTick]_vars

\* createRaw_c on its own: called with one timestamp after another; the
\* timestamp and TID of the call before are kept.
CreateRaw ==
  \E timestamp \in RawTimestamps :
    /\ raw.n < MaxRawCalls
    /\ raw' = [n |-> raw.n + 1, timestamp |-> timestamp,
               tid |-> createRaw_c(timestamp),
               last_timestamp |-> raw.timestamp, last_tid |-> raw.tid]
    /\ UNCHANGED selector
    /\ UNCHANGED <<align, tid, gen, tzc, noon, tick, wf, js>>

NextRaw == CreateRaw

SpecRaw == InitOneRow /\ [][NextRaw]_vars

\* The first watchface's tick: update_closest_noon_time called with any
\* instant, between rand() calls made by the rest of the program.
WfUpdate ==
  \E current_seconds_utc \in WfInstants :
    /\ wf.n < MaxWfCalls
    /\ update_closest_noon_time(current_seconds_utc)
    /\ UNCHANGED <<table, s_last_update_time, s_last_re_eval_time,
                   s_selected_code, s_selected_name, s_selected_offset_hours,
                   code_layer_text, time_layer_text, best_candidates, idx,
                   eval_target, last_call, memo, fault>>
    /\ UNCHANGED <<align, tid, gen, tzc, noon, tick, raw, js>>

NextWf == WfUpdate \/ RandElsewhere

SpecWf == InitOneRow /\ [][NextWf]_vars

\* The appmessage listener with loadAirportData up to xhr.send(): the
\* callback runs at once when airportData is set.
AppMessage ==
  \E e \in Payloads :
    /\ Len(js.messages) < MaxRequests
    /\ LET r == Len(js.messages) + 1
           received == [js EXCEPT !.messages = Append(@, e),
                                  !.xhr = Append(@, "none")]
       IN js' = IF ~e.payload \/ e.type # REQUEST_AIRPORT_INFO THEN received
                ELSE IF js.airportData
                THEN [received EXCEPT !.sent = Callback(received, r)]
                ELSE [received EXCEPT !.xhr[r] = "sent"]
    /\ UNCHANGED selector
    /\ UNCHANGED <<align, tid, gen, tzc, noon, tick, raw, wf>>

\* xhr.onerror of a request sent, without the callback
XhrOnerror_silent ==
  \E r \in 1..Len(js.xhr) :
    /\ js.xhr[r] = "sent"
    /\ js' = [js EXCEPT !.xhr[r] = "error"]
    /\ UNCHANGED selector
    /\ UNCHANGED <<align, tid, gen, tzc, noon, tick, raw, wf>>

\* xhr.onerror of a request sent
XhrOnerror ==
  \E r \in 1..Len(js.xhr) :
    /\ js.xhr[r] = "sent"
    /\ js' = [js EXCEPT !.xhr[r] = "error", !.sent = Callback(js, r)]
    /\ UNCHANGED selector
    /\ UNCHANGED <<align, tid, gen, tzc, noon, tick, raw, wf>>

\* xhr.onload of a request sent, with any response
XhrOnload ==
  \E r \in 1..Len(js.xhr), response \in Responses :
    /\ js.xhr[r] = "sent"
    /\ LET loaded ==
             IF response.status = 200 /\ response.parses
             THEN [js EXCEPT !.airportData = TRUE,
                             !.airportIndex =
                                buildIndex(@, response.json, 1)]
             ELSE js
       IN js' = [loaded EXCEPT !.xhr[r] = "load",
                               !.sent = Callback(loaded, r)]
    /\ UNCHANGED selector
    /\ UNCHANGED <<align, tid, gen, tzc, noon, tick, raw, wf>>

NextJs == AppMessage \/ XhrOnload \/ XhrOnerror

\* Every XMLHttpRequest sent ends with its load or its error event.
SpecJs ==
  InitOneRow /\ [][NextJs]_vars /\ WF_vars(XhrOnload \/ XhrOnerror)

\* ----------------------------------------------------------- properties
\* The state holds the result of an evaluation (at s_last_re_eval_time, for
\* eval_target).
Evaluated == s_last_re_eval_time # UNSET

\* A re-evaluation instant: minute-of-hour 0, 15 or 30 and second 0.
ReEvalInstant(t) ==
  ((t % 3600) \div 60) \in {0, 15, 30} /\ t % 60 = 0

\* Local seconds-of-day of bucket tz at instant now, in [0, 86400), with the
\* offset resolved by the DST test.
LocalOfDay(tz, now) ==
  ((now % 86400)
     + 900 * (IF _airport_is_dst(tz, now) THEN tz.dst_quarters
              ELSE tz.std_quarters)) % 86400

\* C1 - Minimality: when the evaluation selected a variant, no variant of
\* the table has a local seconds-of-day L >= target whose excess L - target
\* is strictly smaller than the excess of the selected variant.
C1_Minimality ==
  (Evaluated /\ idx # -1) =>
    \A j \in 0..(TZ_LIST_COUNT - 1) :
      LET L == LocalOfDay(TZ_LIST(j), s_last_re_eval_time)
          chosen == LocalOfDay(TZ_LIST(idx), s_last_re_eval_time)
      IN ~(L >= eval_target /\ L - eval_target < chosen - eval_target)

\* C1 witness: the selected variant is not the first of the table, and an
\* earlier variant qualifies with a strictly larger excess.
C1_Witness ==
  /\ Evaluated
  /\ idx > 0
  /\ LET L0 == LocalOfDay(TZ_LIST(0), s_last_re_eval_time)
     IN /\ L0 >= eval_target
        /\ L0 > LocalOfDay(TZ_LIST(idx), s_last_re_eval_time)

\* C2 - Local time >= target: whenever a real selection is left, the stored
\* active offset satisfies ((now mod 86400) + offset seconds) mod 86400,
\* normalized to [0, 86400), >= target.
C2_LocalGeTarget ==
  (Evaluated /\ idx # -1) =>
    ((s_last_re_eval_time % 86400) + 900 * s_selected_offset_hours) % 86400
      >= eval_target

\* C2 witness: a selection for the noon target whose stored offset is
\* negative or wraps the local time past midnight.
C2_Witness ==
  /\ Evaluated
  /\ idx # -1
  /\ eval_target = 43200
  /\ \/ s_selected_offset_hours < 0
     \/ (s_last_re_eval_time % 86400) + 900 * s_selected_offset_hours >= 86400

\* C3 - DST window: _airport_is_dst is false when dst_start and dst_end are
\* both 0; otherwise, for dst_start <= dst_end it is true exactly when
\* dst_start <= now < dst_end, and for dst_start > dst_end exactly when
\* now >= dst_start or now < dst_end; the selection stores dst_quarters
\* exactly when it is true and std_quarters otherwise.
C3_DstWindow ==
  LET InWindow(tz, now) ==
        /\ ~(tz.dst_start_utc = 0 /\ tz.dst_end_utc = 0)
        /\ \/ /\ tz.dst_start_utc <= tz.dst_end_utc
              /\ tz.dst_start_utc <= now
              /\ now < tz.dst_end_utc
           \/ /\ tz.dst_start_utc > tz.dst_end_utc
              /\ (now >= tz.dst_start_utc \/ now < tz.dst_end_utc)
  IN /\ \A j \in 1..Len(tz_list) : \A now \in Instants :
          _airport_is_dst(tz_list[j], now) = InWindow(tz_list[j], now)
     /\ (Evaluated /\ idx # -1) =>
          s_selected_offset_hours =
            IF InWindow(TZ_LIST(idx), s_last_re_eval_time)
            THEN TZ_LIST(idx).dst_quarters
            ELSE TZ_LIST(idx).std_quarters

\* C3 witness: a wrap-around variant (dst_start > dst_end) selected before
\* its end instant, with the DST offset stored.
C3_Witness ==
  /\ Evaluated
  /\ idx # -1
  /\ TZ_LIST(idx).dst_start_utc > TZ_LIST(idx).dst_end_utc
  /\ s_last_re_eval_time < TZ_LIST(idx).dst_end_utc
  /\ s_selected_offset_hours = TZ_LIST(idx).dst_quarters
  /\ TZ_LIST(idx).dst_quarters # TZ_LIST(idx).std_quarters

\* C4 - None found: if at the evaluation instant every variant's local
\* seconds-of-day is below the target, the selected place is the placeholder
\* and the active offset 0, whatever was selected before, and the evaluation
\* instant is recorded.
C4_NoneFound ==
  /\ (Evaluated /\ \A j \in 0..(TZ_LIST_COUNT - 1) :
                     LocalOfDay(TZ_LIST(j), s_last_re_eval_time) < eval_target)
       => /\ s_selected_code = PLACEHOLDER
          /\ s_selected_name = PLACEHOLDER
          /\ s_selected_offset_hours = 0
  /\ last_call.outcome = "evaluated" => s_last_re_eval_time = s_last_update_time

\* C4 witness: an evaluation that found no variant, run while a real place
\* was selected.
C4_Witness ==
  /\ last_call.outcome = "evaluated"
  /\ last_call.before # PLACEHOLDER
  /\ \A j \in 0..(TZ_LIST_COUNT - 1) :
       LocalOfDay(TZ_LIST(j), s_last_re_eval_time) < eval_target
  /\ s_selected_code = PLACEHOLDER
  /\ s_last_re_eval_time = s_last_update_time

\* C5 - Gating: an update call other than the first runs the evaluation only
\* at a re-evaluation instant (minute 0, 15 or 30, second 0); a call at any
\* other instant runs no evaluation and changes neither the selected place
\* nor the active offset.
C5_Gating ==
  [][\A n \in Instants, t \in Targets :
       (/\ s_last_update_time # UNSET
        /\ clock_closest_airport_noon_update(n, t))
       => /\ last_call'.outcome = "evaluated" => ReEvalInstant(n)
          /\ ~ReEvalInstant(n) =>
               UNCHANGED <<s_selected_code, s_selected_name,
                           s_selected_offset_hours, s_last_re_eval_time,
                           best_candidates, idx, eval_target>>]_vars

\* C5 witness: a later call at minute 45, second 0 that only rendered.
C5_Witness ==
  /\ last_call.outcome = "rendered"
  /\ ~last_call.first
  /\ tm_min(s_last_update_time) = 45
  /\ tm_sec(s_last_update_time) = 0

\* C6 - First call: the first update call after init runs the evaluation
\* whatever the instant, so last_evaluation_instant is set after it, and it
\* stays set after every later call.
C6_FirstCall ==
  /\ last_call.first =>
       /\ last_call.outcome = "evaluated"
       /\ s_last_re_eval_time = s_last_update_time
  /\ s_last_update_time # UNSET => s_last_re_eval_time # UNSET

\* C6 witness: the first call came at an instant that is not a re-evaluation
\* instant and evaluated.
C6_Witness ==
  /\ last_call.first
  /\ last_call.outcome = "evaluated"
  /\ ~ReEvalInstant(s_last_update_time)
  /\ s_last_re_eval_time = s_last_update_time

\* C7 - Same second: an update call with the current_utc_t of the previous
\* call runs no evaluation and leaves the selected place, the active offset,
\* last_evaluation_instant and last_render_instant as they were.
C7_SameSecond ==
  [][\A n \in Instants, t \in Targets :
       (/\ n = s_last_update_time
        /\ clock_closest_airport_noon_update(n, t))
       => /\ last_call'.outcome # "evaluated"
          /\ UNCHANGED <<s_selected_code, s_selected_name,
                         s_selected_offset_hours, s_last_re_eval_time,
                         s_last_update_time, code_layer_text,
                         time_layer_text>>]_vars

\* C7 witness: a repeated call at a re-evaluation instant, after an
\* evaluation at that instant.
C7_Witness ==
  /\ last_call.outcome = "skipped"
  /\ ReEvalInstant(s_last_update_time)
  /\ s_last_re_eval_time = s_last_update_time

\* C8 - Cached offset: an update call that runs no evaluation leaves the
\* selected place and the cached active offset unchanged and shows the
\* minutes and seconds of (current UTC + cached active offset); the DST
\* status of the selected variant is not derived again.
C8_CachedOffset ==
  [][last_call'.outcome = "rendered" =>
       /\ UNCHANGED <<s_selected_code, s_selected_name,
                      s_selected_offset_hours>>
       /\ code_layer_text' = s_selected_code
       /\ LET local == s_last_update_time' + 900 * s_selected_offset_hours
          IN time_layer_text' = <<(local \div 60) % 60, local % 60>>]_vars

\* C8 witness: a call that only rendered, at an instant where the selected
\* variant's DST status differs from the cached offset, which has a
\* half-hour part.
C8_Witness ==
  /\ last_call.outcome = "rendered"
  /\ idx # -1
  /\ ActiveQuarters(TZ_LIST(idx), s_last_update_time)
       # s_selected_offset_hours
  /\ s_selected_offset_hours % 4 # 0

\* C9 - Determinism: two runs of _airport_pick_new with the same table, the
\* same instant and the same target leave the same selected place and the
\* same active offset, whatever the state before and whatever rand() calls
\* came before.
C9_Determinism ==
  (memo.set /\ memo.now = s_last_re_eval_time /\ memo.target = eval_target)
    => /\ s_selected_code = memo.code
       /\ s_selected_name = memo.name
       /\ s_selected_offset_hours = memo.offset

\* C9 witness: the remembered instant and target were evaluated again, from
\* a different state, with two variants tied so that rand() decided.
C9_Witness ==
  /\ memo.set
  /\ memo.again
  /\ memo.now = s_last_re_eval_time
  /\ memo.target = eval_target
  /\ Len(best_candidates) > 1

\* C10 - Inclusive at the target: a variant whose local seconds-of-day equals
\* the target qualifies with excess 0.  For the table {NYC: -18000 s, no DST;
\* LON: 3600 s, DST 7200 s, outside its window}, target 43200 and UTC
\* time-of-day 11:00:00 the evaluation selects LON with offset 3600 s.
C10_InclusiveAtTarget ==
  /\ (Evaluated /\ \E j \in 0..(TZ_LIST_COUNT - 1) :
                     LocalOfDay(TZ_LIST(j), s_last_re_eval_time) = eval_target)
       => /\ idx # -1
          /\ LocalOfDay(TZ_LIST(idx), s_last_re_eval_time) = eval_target
  /\ (/\ tz_list = TzList(<<1, 2>>)
      /\ s_last_re_eval_time = 1736938800
      /\ eval_target = 43200)
       => /\ s_selected_code = <<76, 79, 78>>
          /\ idx = 1
          /\ best_candidates = <<1>>
          /\ 900 * s_selected_offset_hours = 3600

\* C10 witness: the scenario's table evaluated at 2025-01-15 11:00:00 UTC for
\* the noon target.
C10_Witness ==
  /\ tz_list = TzList(<<1, 2>>)
  /\ s_last_re_eval_time = 1736938800
  /\ eval_target = 43200
  /\ s_selected_code = <<76, 79, 78>>

\* C11 - Alignment: for a whole-hour target and every variant whose active
\* offset is a whole number of hours, a half hour or a :45 offset (UTC+h:45,
\* the reading of run.sh), the UTC instant at which the variant's local time
\* reaches the target has minute-of-hour 0, 15 or 30 and second 0: the
\* variant then shows exactly the target, and the evaluation is due.
C11_Alignment ==
  align.set =>
    /\ tm_min(align.reach_utc) \in {0, 15, 30}
    /\ tm_sec(align.reach_utc) = 0
    /\ LocalOfDay([std_quarters |-> align.quarters,
                   dst_quarters |-> align.quarters,
                   dst_start_utc |-> 0, dst_end_utc |-> 0],
                  align.reach_utc) = align.target_seconds_of_day
    /\ ReEvalInstant(align.reach_utc)
    /\ align.due

\* C11 witness: UTC+5:45 reaches 12:00 at 06:15 UTC.
C11_Witness ==
  /\ align.set
  /\ align.quarters = 23
  /\ align.target_seconds_of_day = 43200
  /\ align.reach_utc = AlignDay + 6 * 3600 + 15 * 60
  /\ align.due

\* C20 - Monotonic TID: every clock_tid_get_string call with a buffer of at
\* least 14 bytes encodes a timestamp strictly greater than the one encoded
\* by the previous such call, whether its (seconds, milliseconds) input is
\* later than, equal to or earlier than an earlier input; an input not
\* greater than the previous timestamp is replaced by previous + 1, any
\* other input is encoded as it is.
C20_Monotonic ==
  [][(tid_call'.n # tid_call.n /\ tid_call'.tid_buffer_len >= 14) =>
       LET input == Micros(tid_call'.seconds, tid_call'.milliseconds)
       IN /\ MicrosLess(tid_timestamp, tid_timestamp')
          /\ last_timestamp' = tid_timestamp'
          /\ tid_timestamp' = IF MicrosLeq(input, tid_timestamp)
                              THEN MicrosSucc(tid_timestamp)
                              ELSE input]_vars

\* C20 witness: three calls, the last two with an input not greater than the
\* timestamp before them, the last one with an earlier input than the first.
C20_Witness ==
  /\ tid_call.n = 3
  /\ tid_call.tid_buffer_len = 14
  /\ tid_call.seconds = 1736938800
  /\ tid_timestamp = [sec |-> 1736938801, usec |-> 2]

\* C19 - Empty place list: if the variant chosen by _airport_pick_new has
\* name_count == 0, the selector surfaces a fixed error marker (no place of
\* the table) as the selected place and completes the evaluation, without a
\* fault: no modulo by zero, no read outside the variant's pool range.
C19_EmptyPlaceList ==
  (idx # -1 /\ TZ_LIST(idx).name_count = 0) =>
    /\ fault = "none"
    /\ s_last_re_eval_time = s_last_update_time
    /\ \A k \in 1..Len(airport_code_pool_bits) :
         s_selected_code # UnpackCode(airport_code_pool_bits[k])

\* ------------------------------------------ properties of the table written
\* the row of the written table with the given four fields, 0 if none
RowOf(file, std_quarters, dst_quarters, dst_start_utc, dst_end_utc) ==
  LET S == {k \in 1..Len(file.airport_tz_list) :
              /\ file.airport_tz_list[k].std_quarters = std_quarters
              /\ file.airport_tz_list[k].dst_quarters = dst_quarters
              /\ file.airport_tz_list[k].dst_start_utc = dst_start_utc
              /\ file.airport_tz_list[k].dst_end_utc = dst_end_utc}
  IN IF S = {} THEN 0 ELSE CHOOSE k \in S : TRUE

\* the 0-based pool positions of a row's place range
PlaceRange(row) == row.name_offset..(row.name_offset + row.name_count - 1)

RECURSIVE SumNameCount(_, _)
\* the sum of name_count over the first n rows
SumNameCount(rows, n) ==
  IF n = 0 THEN 0 ELSE SumNameCount(rows, n - 1) + rows[n].name_count

\* the number of NUL-terminated entries written to airport_name_pool
NameEntries(pool) == Cardinality({k \in 1..Len(pool) : pool[k] = 0})

\* C12 - Non-empty variants: every variant record generateCCode writes into
\* airport_tz_list has name_count >= 1, after the group assignment, the
\* empty-bucket safety pass and the per-variant cap (no cap, or
\* maxBucket >= 1).
C12_NonEmpty ==
  gen.done =>
    \A k \in 1..Len(gen.file.airport_tz_list) :
      gen.file.airport_tz_list[k].name_count >= 1

\* C12 witness: the list holds Iata.LHR only and the cap is 1; the Reykjavik
\* bucket (0, 0, 0, 0) shares London's standard offset, gets no code from the
\* group and is filled with Iata.KEF by the safety pass.
C12_Witness ==
  /\ gen.done
  /\ gen.airportsList = <<Iata.LHR>>
  /\ gen.maxBucket = 1
  /\ LET k == RowOf(gen.file, 0, 0, 0, 0)
     IN /\ k # 0
        /\ gen.file.airport_tz_list[k].name_count = 1
        /\ gen.file.airport_code_pool_bits[
              gen.file.airport_tz_list[k].name_offset + 1] = PackCode(Iata.KEF)

\* C13 - Global deduplication: no place code appears in more than one
\* variant's place range of the written table, and no code appears twice in
\* the written code pool, for every input list (lists with repeated codes
\* and fallback codes included).
C13_NoDuplicateCode ==
  gen.done =>
    LET rows == gen.file.airport_tz_list
        bits == gen.file.airport_code_pool_bits
    IN /\ \A i, j \in 1..Len(rows) :
            i # j => \A p \in PlaceRange(rows[i]), q \in PlaceRange(rows[j]) :
                       /\ p < Len(bits) /\ q < Len(bits)
                       /\ bits[p + 1] # bits[q + 1]
       /\ \A p, q \in 1..Len(bits) : p # q => bits[p] # bits[q]

\* C13 witness: a list that names Iata.LHR twice, and fallback codes (Iata.JFK, Iata.DEL,
\* Iata.KTM) for the standard offsets the list does not reach; Iata.LHR is written once.
C13_Witness ==
  /\ gen.done
  /\ gen.airportsList = <<Iata.LHR, Iata.LHR, Iata.LGW>>
  /\ gen.maxBucket = 2
  /\ Cardinality({p \in 1..Len(gen.file.airport_code_pool_bits) :
                    gen.file.airport_code_pool_bits[p] = PackCode(Iata.LHR)}) = 1
  /\ \E p \in 1..Len(gen.file.airport_code_pool_bits) :
       gen.file.airport_code_pool_bits[p] = PackCode(Iata.DEL)

\* C14 - Distinct variants: no two variant records written by generateCCode
\* are equal on all four fields (standard offset, DST offset, DST start, DST
\* end); zones with the same 4-tuple are merged into one bucket.
C14_DistinctVariants ==
  gen.done =>
    LET rows == gen.file.airport_tz_list
    IN \A i, j \in 1..Len(rows) :
         i # j => \/ rows[i].std_quarters # rows[j].std_quarters
                  \/ rows[i].dst_quarters # rows[j].dst_quarters
                  \/ rows[i].dst_start_utc # rows[j].dst_start_utc
                  \/ rows[i].dst_end_utc # rows[j].dst_end_utc

\* C14 witness: Europe/London and Europe/Dublin have the same 4-tuple; the
\* table has one record for both, holding Iata.LHR and Iata.DUB, and 7 records for the
\* 8 zones of the database.
C14_Witness ==
  /\ gen.done
  /\ gen.airportsList = <<Iata.LHR, Iata.DUB>>
  /\ gen.maxBucket = 0
  /\ gen.groupSize = 0
  /\ Len(gen.file.airport_tz_list) = 7
  /\ LET k == RowOf(gen.file, 0, 4, 1743296400, 1761440400)
     IN /\ k # 0
        /\ gen.file.airport_tz_list[k].name_count = 2

\* C15 - Pool layout: in the written table each variant's name_offset equals
\* the sum of name_count over the variants written before it, and the sum of
\* all name_count equals AIRPORT_CODE_POOL_COUNT, AIRPORT_NAME_POOL_COUNT
\* and the number of code and name entries written, so every range
\* [name_offset, name_offset + name_count) lies inside both pools.
C15_PoolLayout ==
  gen.done =>
    LET rows == gen.file.airport_tz_list
        total == SumNameCount(rows, Len(rows))
    IN /\ \A k \in 1..Len(rows) :
            /\ rows[k].name_offset = SumNameCount(rows, k - 1)
            /\ rows[k].name_offset + rows[k].name_count
                 <= Len(gen.file.airport_code_pool_bits)
            /\ rows[k].name_offset + rows[k].name_count
                 <= NameEntries(gen.file.airport_name_pool)
       /\ total = gen.file.AIRPORT_CODE_POOL_COUNT
       /\ total = gen.file.AIRPORT_NAME_POOL_COUNT
       /\ total = gen.file.AIRPORT_CODE_POOL_BITS_COUNT
       /\ total = Len(gen.file.airport_code_pool_bits)
       /\ total = NameEntries(gen.file.airport_name_pool)

\* C15 witness: a table whose third record holds two places at offset 2 and
\* whose pools hold 8 entries.
C15_Witness ==
  /\ gen.done
  /\ gen.airportsList = <<Iata.LHR, Iata.LGW>>
  /\ gen.maxBucket = 2
  /\ gen.file.airport_tz_list[3].name_offset = 2
  /\ gen.file.airport_tz_list[3].name_count = 2
  /\ gen.file.airport_tz_list[4].name_offset = 4
  /\ gen.file.AIRPORT_CODE_POOL_COUNT = 8

\* C16 - Per-variant cap: when maxBucket > 0, no variant written by
\* generateCCode has more than maxBucket places, whatever the order in which
\* list codes, fallback codes and safety-pass codes are assigned.
C16_Cap ==
  (gen.done /\ gen.maxBucket > 0) =>
    \A k \in 1..Len(gen.file.airport_tz_list) :
      gen.file.airport_tz_list[k].name_count <= gen.maxBucket

\* C16 witness: the list names three airports of the London bucket, the cap
\* is 2, and the bucket is written with 2 places.
C16_Witness ==
  /\ gen.done
  /\ gen.airportsList = <<Iata.LHR, Iata.LGW, Iata.DUB>>
  /\ gen.maxBucket = 2
  /\ gen.groupSize = 0
  /\ LET k == RowOf(gen.file, 0, 4, 1743296400, 1761440400)
     IN /\ k # 0
        /\ gen.file.airport_tz_list[k].name_count = 2

\* ------------------------------------------- properties of the transitions
\* C17 - No-DST collapse: the tuple findDstTransitions returns has a standard
\* and a DST offset that differ by less than 60 seconds only when they have
\* been collapsed: dst_offset == standard_offset and dst_start == dst_end == 0.
C17_Collapse ==
  tzc.found # <<>> =>
    (Abs(tzc.found[1] - tzc.found[2]) < 60 =>
       /\ tzc.found[2] = tzc.found[1]
       /\ tzc.found[3] = 0
       /\ tzc.found[4] = 0)

\* C17 witness: findDstTransitions has returned for the zone whose flag
\* changes twice in the year with offsets 30 seconds apart.
C17_Witness ==
  /\ tzc.phase = "found"
  /\ tzc.zoneName = "Test/Flag"
  /\ tzc.found = <<3600, 3600, 0, 0>>

\* C18 - Equivalence: findDstTransitions (6-hour coarse walk with binary
\* search refinement to the hour) returns the same [standard offset, DST
\* offset, DST start, DST end] as the hour-by-hour scan of the year
\* (calculateTransitions), zones whose DST transition falls on a half-hour
\* UTC instant and zones of the southern hemisphere included.
C18_SameAsHourly ==
  tzc.phase = "done" => tzc.found = tzc.expected

\* ------------------------------------------------ properties, continued
\* C21 - Candidate set: at the end of the scan in _airport_pick_new,
\* best_candidates[0 .. best_count) holds exactly the variant indices whose
\* excess equals the minimum excess among the qualifying variants, each once.
C21_AllMinimal ==
  Evaluated =>
    LET now == s_last_re_eval_time
        qualifying == {j \in 0..(TZ_LIST_COUNT - 1) :
                         LocalOfDay(TZ_LIST(j), now) >= eval_target}
        minimal == {j \in qualifying :
                      \A k \in qualifying :
                        LocalOfDay(TZ_LIST(j), now) <= LocalOfDay(TZ_LIST(k), now)}
    IN /\ {best_candidates[n] : n \in 1..Len(best_candidates)} = minimal
       /\ \A m, n \in 1..Len(best_candidates) :
            m # n => best_candidates[m] # best_candidates[n]

\* C21 witness: an evaluation in which two variants tie at the minimum excess
\* and both are in best_candidates.
C21_Witness ==
  /\ Evaluated
  /\ Len(best_candidates) = 2
  /\ LocalOfDay(TZ_LIST(0), s_last_re_eval_time)
       = LocalOfDay(TZ_LIST(1), s_last_re_eval_time)
  /\ idx \in {0, 1}

\* C22 - Stored offset: in update_selected_timezone_and_city the active
\* offset stored for the winning variant is the DST-resolved offset that the
\* scan used for that variant's local time, wrap-around variants
\* (dst_start > dst_end) included.
C22_StoredOffsetIsScanned ==
  noon.idx # -1 =>
    noon.s_selected_offset_hours =
      (IF noon.is_dst[noon.idx + 1] THEN TZ_LIST(noon.idx).dst_quarters
       ELSE TZ_LIST(noon.idx).std_quarters)

\* C23 - DST rule: the scan of update_selected_timezone_and_city decides DST
\* activity by the rule: never active only when dst_start and dst_end are
\* both 0, otherwise dst_start <= now < dst_end when dst_start <= dst_end, and
\* now >= dst_start or now < dst_end when dst_start > dst_end; a variant with
\* exactly one of the two instants equal to 0 is decided by those tests.
C23_DstRule ==
  noon.s_last_re_evaluation_time # UNSET =>
    \A i \in 0..(TZ_LIST_COUNT - 1) :
      LET tz == TZ_LIST(i)
          now == noon.s_last_re_evaluation_time
      IN noon.is_dst[i + 1] =
           (IF tz.dst_start_utc = 0 /\ tz.dst_end_utc = 0 THEN FALSE
            ELSE IF tz.dst_start_utc <= tz.dst_end_utc
                 THEN tz.dst_start_utc <= now /\ now < tz.dst_end_utc
                 ELSE now >= tz.dst_start_utc \/ now < tz.dst_end_utc)

\* C24 - Evaluation at a re-evaluation instant: an update call at an instant
\* whose UTC minute-of-hour is 0, 15 or 30 and second is 0, and that differs
\* from the last rendered instant, runs the evaluation in that call, and
\* last_evaluation_instant becomes that instant.
C24_EvaluatesAtInstant ==
  [][\A n \in Instants, t \in Targets :
       (/\ ReEvalInstant(n)
        /\ n # s_last_update_time
        /\ clock_closest_airport_noon_update(n, t))
       => /\ last_call'.outcome = "evaluated"
          /\ eval_target' = t
          /\ s_last_re_eval_time' = n]_vars

\* C24 as amended: such a call runs the evaluation (once, for the call's
\* target) when the instant also differs from last_evaluation_instant, and
\* last_evaluation_instant becomes that instant; when the instant equals
\* last_evaluation_instant the call only renders and the selection stays.
C24_EvaluatesUnlessSame ==
  [][\A n \in Instants, t \in Targets :
       (/\ ReEvalInstant(n)
        /\ n # s_last_update_time
        /\ clock_closest_airport_noon_update(n, t))
       => IF n # s_last_re_eval_time
          THEN /\ last_call'.outcome = "evaluated"
               /\ eval_target' = t
               /\ rand_draws' = 0
               /\ s_last_re_eval_time' = n
          ELSE /\ last_call'.outcome = "rendered"
               /\ UNCHANGED <<s_selected_code, s_selected_name,
                              s_selected_offset_hours, s_last_re_eval_time,
                              eval_target>>]_vars

\* C24 witness: a call after the first one evaluated at a re-evaluation
\* instant earlier than an instant already rendered.
C24_Witness ==
  /\ last_call.outcome = "evaluated"
  /\ ~last_call.first
  /\ ReEvalInstant(s_last_update_time)
  /\ s_last_re_eval_time = s_last_update_time
  /\ s_last_update_time = 1736938800

\* C25 - Cached selection between evaluations: with the update operation
\* called once for every UTC second, a whole-hour target, offsets that are
\* whole hours, half hours or 45-minute offsets, and DST transitions on
\* re-evaluation instants, after every tick but the first the cached selected
\* variant is a minimal-excess qualifying variant for the current instant and
\* its cached offset is its active offset, or the placeholder is selected
\* while no variant qualifies.
C25_CachedStillMinimal ==
  tick.n >= 2 =>
    LET now == s_last_update_time
        qualifying == {j \in 0..(TZ_LIST_COUNT - 1) :
                         LocalOfDay(TZ_LIST(j), now) >= tick.target}
    IN IF qualifying = {}
       THEN idx = -1 /\ s_selected_code = PLACEHOLDER
       ELSE /\ idx \in qualifying
            /\ \A k \in qualifying :
                 LocalOfDay(TZ_LIST(idx), now) <= LocalOfDay(TZ_LIST(k), now)
            /\ s_selected_offset_hours = ActiveQuarters(TZ_LIST(idx), now)
            /\ s_selected_code # PLACEHOLDER

\* C25 witness: a tick two minutes after 06:15 UTC, where the UTC+5:45 variant
\* reached noon and was selected by the evaluation at 06:15:00.
C25_Witness ==
  /\ tick.n >= 2
  /\ s_last_update_time = 1736921820
  /\ s_last_re_eval_time = 1736921700
  /\ last_call.outcome = "rendered"
  /\ s_selected_offset_hours = 23

\* C26 - Code round trip: for every place code that generateCCode writes to
\* the code pool, unpacking its 15-bit entry as _airport_pick_new does
\* ('A' + bits 14..10, 'A' + bits 9..5, 'A' + bits 4..0) yields the
\* 3-character code that was packed (the code in the entry's comment).
C26_RoundTrip ==
  gen.done =>
    /\ Len(gen.file.code_comments) = Len(gen.file.airport_code_pool_bits)
    /\ \A k \in 1..Len(gen.file.airport_code_pool_bits) :
         UnpackCode(gen.file.airport_code_pool_bits[k])
           = gen.file.code_comments[k]

\* C26 witness: a table written with at least three codes, LGW (letters 11, 6
\* and 22) among them and unpacked as LGW.
C26_Witness ==
  /\ gen.done
  /\ Len(gen.file.airport_code_pool_bits) >= 3
  /\ \E k \in 1..Len(gen.file.airport_code_pool_bits) :
       /\ gen.file.code_comments[k] = <<76, 71, 87>>
       /\ gen.file.airport_code_pool_bits[k] = 11478
       /\ UnpackCode(gen.file.airport_code_pool_bits[k]) = <<76, 71, 87>>

\* s < t for two sequences of the same length, compared element by element
\* from the first (numbers by their digits, strings byte-wise)
LexLess(s, t) ==
  \E k \in 1..Len(s) :
    /\ s[k] < t[k]
    /\ \A j \in 1..(k - 1) : s[j] = t[j]

\* C27 - TID order: every TID string produced has the constant width of 13
\* characters, and for every 64-bit timestamp value the 11-character
\* timestamp field of a TID made from a larger timestamp is larger in
\* byte-wise lexicographic order.
C27_OrderAll64 ==
  /\ raw.n >= 1 => Len(raw.tid) = 13
  /\ (raw.n >= 2 /\ LexLess(raw.last_timestamp, raw.timestamp)) =>
       LexLess(SubSeq(raw.last_tid, 1, 11), SubSeq(raw.tid, 1, 11))

\* C27 as amended: the width is 13 for every timestamp, and the order of the
\* timestamp fields is the order of the timestamps for timestamps below 2^55
\* (the two leading base-32 digits of the 64-bit value are 0).
C27_OrderBelow2to55 ==
  /\ raw.n >= 1 => Len(raw.tid) = 13
  /\ (/\ raw.n >= 2
      /\ LexLess(raw.last_timestamp, raw.timestamp)
      /\ raw.timestamp[1] = 0
      /\ raw.timestamp[2] = 0) =>
       LexLess(SubSeq(raw.last_tid, 1, 11), SubSeq(raw.tid, 1, 11))

\* C27 witness: 31 ("2222222222z22") encoded, then 32 ("2222222223222").
C27_Witness ==
  /\ raw.n = 2
  /\ raw.last_timestamp = [Zero64 EXCEPT ![13] = 31]
  /\ raw.timestamp = [Zero64 EXCEPT ![12] = 1]
  /\ raw.last_tid = <<50, 50, 50, 50, 50, 50, 50, 50, 50, 50, 122, 50, 50>>
  /\ raw.tid = <<50, 50, 50, 50, 50, 50, 50, 50, 50, 51, 50, 50, 50>>

\* C28 - reuse of the displayed name: in update_closest_noon_time, when the
\* sorted winning set of this second equals the set recorded at the last
\* selection and a name was chosen before, the displayed name is that name
\* and rand() is not called; a place is chosen anew only in a second whose
\* winning set differs from the recorded one.
C28_ReuseWhenSetUnchanged ==
  (wf.n >= 1 /\ ~wf.returned_early) =>
    /\ (wf.current = wf.recorded /\ wf.name_before # NULL) =>
         /\ wf.final_name = wf.name_before
         /\ wf.draws = 0
         /\ ~wf.selected
    /\ wf.selected => wf.current # wf.recorded

\* C28 witness: the tie of UTC-11 and UTC+13 at 23:00:00 was resolved to one
\* of UTC+13's two names, and the update of 23:00:01, with the same two
\* winners, shows that name without a draw.
C28_Witness ==
  /\ wf.n >= 2
  /\ ~wf.returned_early
  /\ wf.last_closest_noon_update_secs = 1736982001
  /\ wf.current = <<0, 5>>
  /\ wf.recorded = <<0, 5>>
  /\ wf.name_before \in {<<5, 0>>, <<5, 1>>}
  /\ wf.final_name = wf.name_before
  /\ wf.draws = 0
  /\ ~wf.selected

\* C29 - one index for both pools: whenever _airport_pick_new has selected a
\* place, some pool index within [name_offset, name_offset + name_count) of
\* the chosen variant holds both the selected code in the code pool and the
\* selected name in the name pool.
C29_SameIndexInRange ==
  (Evaluated /\ idx # -1) =>
    LET tz == TZ_LIST(idx)
    IN \E k \in tz.name_offset..(tz.name_offset + tz.name_count - 1) :
         /\ s_selected_code = UnpackCode(airport_code_pool_bits[k + 1])
         /\ s_selected_name =
              CString(airport_name_pool,
                      _airport_flat_name(airport_name_pool, 0, k))

\* C29 witness: a variant with two places was chosen and its second place
\* selected, the variant not being the first of the table.
C29_Witness ==
  /\ Evaluated
  /\ idx > 0
  /\ TZ_LIST(idx).name_count = 2
  /\ s_selected_code =
       UnpackCode(airport_code_pool_bits[TZ_LIST(idx).name_offset + 2])
  /\ s_selected_name =
       CString(airport_name_pool,
               _airport_flat_name(airport_name_pool, 0,
                                  TZ_LIST(idx).name_offset + 1))
  /\ s_selected_name #
       CString(airport_name_pool,
               _airport_flat_name(airport_name_pool, 0,
                                  TZ_LIST(idx).name_offset))

\* the sendAppMessage calls made by the callback of appmessage r
RepliesTo(r) == {k \in 1..Len(js.sent) : js.sent[k].to = r}

\* appmessage r has arrived and asks for airport information
IsRequest(r) ==
  /\ r <= Len(js.messages)
  /\ js.messages[r].payload
  /\ js.messages[r].type = REQUEST_AIRPORT_INFO

\* the codes that the dataset has with a city and a country
DatasetCodes == {"LHR", "JFK"}

\* no appmessage has more than one reply; one whose load has ended (or was
\* not needed) has one, any other message none; and a reply to an unknown
\* code, or sent while no dataset was loaded, says "?" and ""
RepliesRight ==
  /\ \A r \in 1..Len(js.messages) :
       Cardinality(RepliesTo(r)) =
         IF IsRequest(r) /\ js.xhr[r] # "sent" THEN 1 ELSE 0
  /\ \A k \in 1..Len(js.sent) :
       LET code == js.messages[js.sent[k].to].code
       IN (~js.sent[k].loaded \/ toUpperCase(code) \notin DatasetCodes) =>
            js.sent[k].KEY_CITY = "?" /\ js.sent[k].KEY_COUNTRY = ""

\* C30 - one reply per request: every appmessage of type
\* REQUEST_AIRPORT_INFO leads to exactly one sendAppMessage call, whatever
\* the outcome of the dataset load and however the pending requests
\* interleave; a reply to an unknown code or without a dataset carries city
\* "?" and an empty country.
C30_ExactlyOneReply ==
  /\ []RepliesRight
  /\ \A r \in 1..MaxRequests :
       IsRequest(r) ~> (Cardinality(RepliesTo(r)) = 1)

\* C30 witness: two requests were pending together; the second one's load
\* failed first and was answered "?", then the first one's load succeeded and
\* was answered with the city.
C30_Witness ==
  /\ Len(js.sent) = 2
  /\ js.xhr = <<"load", "error">>
  /\ js.sent[1].to = 2
  /\ js.sent[1].KEY_CITY = "?"
  /\ js.sent[2].to = 1
  /\ js.sent[2].KEY_CITY = "New York"

=============================================================================
